---- MODULE Spec2Model ----
(***************************************************************************)
(* A model of the me-trade backtest core: StrategyCompiler.compile, the    *)
(* generated GeneratedStrategy class (compiler.py), BacktestEngine.        *)
(* run_backtest and EquityCurveAnalyzer (engine.py), run on the Backtrader *)
(* broker the engine configures (market orders, percentage commission,     *)
(* percentage slippage; no cheat-on-close, so an order created on bar t is *)
(* matched by the broker at the start of bar t+1).  The backtest is the   *)
(* specification Spec; CodeValidator (validator.py) with the compiler,     *)
(* MetricsCalculator (metrics.py) and IndicatorCalculator (indicators.py)  *)
(* are called on their own in SpecValidator, SpecMetrics, SpecIndicators.  *)
(*                                                                         *)
(* Numbers.  Python floats are modelled by exact integers in fixed units:  *)
(*   stored prices (open/high/low/close, indicator values) : whole dollars *)
(*   executed prices (after slippage)                      : cents         *)
(*   cash, values, commissions, pnl                        : 1/10000 dollar*)
(*   commission rate and percentages                       : percent       *)
(* An optional value (Python None, a NULL/NaN column) is <<>>, a present   *)
(* value v is <<v>>.                                                       *)
(***************************************************************************)
EXTENDS Integers, Sequences, FiniteSets, TLC

None == <<>>
Some(v) == <<v>>
NaN == <<>>

Max(a, b) == IF a >= b THEN a ELSE b
Min(a, b) == IF a <= b THEN a ELSE b
Abs(a) == IF a >= 0 THEN a ELSE 0 - a

\* whole dollars -> cents, cents -> money units, whole dollars -> money units
Cents(d) == d * 100
CentsToMoney(c) == c * 100
Money(d) == d * 10000

(***************************************************************************)
(* Bounds of the model.                                                    *)
(***************************************************************************)
MaxBars == 4

(***************************************************************************)
(* Stored data: the rows get_indicators_with_ohlcv returns for a symbol.   *)
(* A row carries the OHLC columns and the indicator columns; the columns   *)
(* not listed in a row are NULL.                                           *)
(***************************************************************************)
Row(o, c, s20, s50) ==
    [open |-> o, high |-> Max(o, c), low |-> Min(o, c), close |-> c,
     sma_20 |-> s20, sma_50 |-> s50]

RowSet ==
    { Row(10, 10, NaN, Some(10)),       \* warm-up: sma_20 undefined
      Row(10, 10, Some(11), Some(10)),  \* flat bar, sma_20 above sma_50
      Row(10, 8, Some(11), NaN),        \* falls within the bar, sma_50 undefined
      Row(12, 12, Some(11), Some(10)),  \* gaps up
      Row(10, 12, Some(9), Some(10)) }  \* rises within the bar, sma_20 below

RowSeqs == UNION { [1..n -> RowSet] : n \in 0..MaxBars }

Symbols == {"AAA", "BBB"}

(***************************************************************************)
(* Strategy definitions (the dictionaries StrategyCompiler.compile takes). *)
(***************************************************************************)
Ind(name, period) == [ind |-> name, period |-> period]
Lit(n) == [num |-> n]
Cond(name, period, op, rhs) ==
    [type |-> "indicator", ind |-> name, period |-> period, op |-> op, rhs |-> rhs]
ExitCond(type, percent) == [type |-> type, percent |-> percent]
Sizing(sizing, value) == [sizing |-> sizing, value |-> value]
StrategyDict(entry, exit, position) ==
    [entry |-> entry, exit |-> exit, position |-> position]

\* SMA(20) > 10; stop loss 10% then take profit 10%; all cash
StratStopThenProfit ==
    StrategyDict(<<Cond("SMA", 20, ">", Lit(10))>>,
                 <<ExitCond("stop_loss", 10), ExitCond("take_profit", 10)>>,
                 Sizing("percent_cash", 100))
\* SMA(20) > SMA(50); trailing stop 10%, stop loss 10%, take profit 10%; 4 shares
StratCross ==
    StrategyDict(<<Cond("SMA", 20, ">", Ind("SMA", 50))>>,
                 <<ExitCond("trailing_stop", 10), ExitCond("stop_loss", 10),
                   ExitCond("take_profit", 10)>>,
                 Sizing("fixed", 4))
\* SMA(20) >= 11 AND SMA(50) <= 10; take profit 10%; a quarter of the cash
StratTwoConds ==
    StrategyDict(<<Cond("SMA", 20, ">=", Lit(11)), Cond("SMA", 50, "<=", Lit(10))>>,
                 <<ExitCond("take_profit", 10)>>,
                 Sizing("percent_cash", 25))
\* SMA(50) == 10 AND SMA(20) < 12; no exit rule; 20 shares (more than the cash buys)
StratNoExit ==
    StrategyDict(<<Cond("SMA", 50, "==", Lit(10)), Cond("SMA", 20, "<", Lit(12))>>,
                 <<>>,
                 Sizing("fixed", 20))
\* SMA(5) > 0: a period the data feed has no line for
StratShortSMA ==
    StrategyDict(<<Cond("SMA", 5, ">", Lit(0))>>,
                 <<ExitCond("take_profit", 10)>>,
                 Sizing("fixed", 1))
\* BBANDS > SMA(20) AND SMA(50) > 5: the compiler has no expression for BBANDS
StratBollinger ==
    StrategyDict(<<Cond("BBANDS", 20, ">", Ind("SMA", 20)), Cond("SMA", 50, ">", Lit(5))>>,
                 <<ExitCond("stop_loss", 10)>>,
                 Sizing("fixed", 1))
\* SMA(20) > VWAP: no expression for the right-hand side
StratUnknownRhs ==
    StrategyDict(<<Cond("SMA", 20, ">", Ind("VWAP", 14))>>,
                 <<ExitCond("stop_loss", 10)>>,
                 Sizing("fixed", 1))
\* SMA(20) > 10; trailing stop 10%; 5% of the cash
StratSmallTrailing ==
    StrategyDict(<<Cond("SMA", 20, ">", Lit(10))>>,
                 <<ExitCond("trailing_stop", 10)>>,
                 Sizing("percent_cash", 5))
\* SMA(20) > 10; a stop loss of 0%; 1 share
StratZeroStop ==
    StrategyDict(<<Cond("SMA", 20, ">", Lit(10))>>,
                 <<ExitCond("stop_loss", 0)>>,
                 Sizing("fixed", 1))
\* SMA(20) > 10; a take profit of -10% and a trailing stop without percent; 1 share
StratOddExits ==
    StrategyDict(<<Cond("SMA", 20, ">", Lit(10))>>,
                 <<ExitCond("take_profit", -10), [type |-> "trailing_stop"]>>,
                 Sizing("fixed", 1))
\* SMA(20) != 10: an operator outside >, <, >=, <=, == that Python accepts
StratNotEqual ==
    StrategyDict(<<Cond("SMA", 20, "!=", Lit(10))>>,
                 <<ExitCond("stop_loss", 10)>>,
                 Sizing("fixed", 1))
\* SMA(20) =< 10: an operator Python does not accept
StratBadOperator ==
    StrategyDict(<<Cond("SMA", 20, "=<", Lit(10))>>,
                 <<ExitCond("stop_loss", 10)>>,
                 Sizing("fixed", 1))
\* no entry condition at all
StratEmpty ==
    StrategyDict(<<>>, <<ExitCond("stop_loss", 10)>>, Sizing("percent_cash", 100))

(***************************************************************************)
(* StrategyCompiler                                                        *)
(***************************************************************************)
\* _indicator_expression: the data-feed line an indicator reads ("" when the
\* compiler knows none) and its label.
_indicator_expression(ind_name, period) ==
    CASE ind_name = "SMA" ->
            [expr |-> "sma_" \o ToString(period), label |-> "SMA(" \o ToString(period) \o ")"]
      [] ind_name = "EMA" ->
            [expr |-> "ema_" \o ToString(period), label |-> "EMA(" \o ToString(period) \o ")"]
      [] ind_name = "RSI" ->
            [expr |-> IF period = 14 THEN "rsi_14" ELSE "rsi_" \o ToString(period),
             label |-> "RSI(" \o ToString(period) \o ")"]
      [] ind_name = "MACD" -> [expr |-> "macd", label |-> "MACD"]
      [] ind_name = "MACD_SIGNAL" -> [expr |-> "macd_signal", label |-> "MACD Signal"]
      [] ind_name = "MACD_HISTOGRAM" ->
            [expr |-> "macd_histogram", label |-> "MACD Histogram"]
      [] OTHER -> [expr |-> "", label |-> ind_name]

_format_literal(value) == ToString(value)

\* One generated comparison: lhs is a line name; rhs is a line name (line) or a
\* literal (lit); an empty right-hand side (text "") leaves "lhs op " in the code.
RhsIsIndicator(rhs) == "ind" \in DOMAIN rhs

ConditionPart(condition) ==
    LET lhs == _indicator_expression(condition.ind, condition.period)
        rhs == condition.rhs
        r   == IF RhsIsIndicator(rhs)
                 THEN LET e == _indicator_expression(rhs.ind, rhs.period)
                      IN  [expr |-> IF e.expr = "" THEN [text |-> ""] ELSE [line |-> e.expr],
                           label |-> e.label]
                 ELSE [expr |-> [lit |-> rhs.num], label |-> _format_literal(rhs.num)]
    IN  [lhs |-> lhs.expr, op |-> condition.op, rhs |-> r.expr,
         reason |-> lhs.label \o " " \o condition.op \o " " \o r.label]

\* the conditions that reach the generated code: typed "indicator" and with a
\* left-hand expression
KeptCondition(condition) ==
    /\ condition.type = "indicator"
    /\ _indicator_expression(condition.ind, condition.period).expr # ""

RECURSIVE JoinReasons(_)
JoinReasons(parts) ==
    IF Len(parts) = 1 THEN parts[1].reason
    ELSE parts[1].reason \o " AND " \o JoinReasons(Tail(parts))

_generate_entry_logic(entry_conditions) ==
    LET parts == [p \in 1..Len(SelectSeq(entry_conditions, KeptCondition)) |->
                    ConditionPart(SelectSeq(entry_conditions, KeptCondition)[p])]
    IN  IF entry_conditions = <<>> \/ parts = <<>>
          THEN [kind |-> "pass"]
          ELSE [kind |-> "if", parts |-> parts,
                reason |-> "Entry: " \o JoinReasons(parts)]

\* condition.get('percent', 0.1), in percent
Percent(condition) ==
    IF "percent" \in DOMAIN condition THEN condition.percent ELSE 10

ExitClause(condition) ==
    CASE condition.type = "trailing_stop" ->
            [cmp |-> "<=", percent |-> Percent(condition),
             reason |-> "Trailing stop " \o ToString(Percent(condition)) \o ".0% triggered"]
      [] condition.type = "stop_loss" ->
            [cmp |-> "<=", percent |-> Percent(condition),
             reason |-> "Stop loss " \o ToString(Percent(condition)) \o ".0% triggered"]
      [] condition.type = "take_profit" ->
            [cmp |-> ">=", percent |-> Percent(condition),
             reason |-> "Take profit " \o ToString(Percent(condition)) \o ".0% reached"]
      [] condition.type = "profit_target" ->
            [cmp |-> ">=", percent |-> Percent(condition),
             reason |-> "Profit target " \o ToString(Percent(condition)) \o ".0% hit"]

KnownExit(condition) ==
    condition.type \in {"trailing_stop", "stop_loss", "take_profit", "profit_target"}

_generate_exit_logic(exit_conditions) ==
    LET known == SelectSeq(exit_conditions, KnownExit)
    IN  IF known = <<>>
          THEN [kind |-> "pass"]
          ELSE [kind |-> "chain", clauses |-> [i \in 1..Len(known) |-> ExitClause(known[i])]]

_generate_position_sizing(position_config) ==
    CASE position_config.sizing = "percent_cash" ->
            [kind |-> "percent_cash", value |-> position_config.value]
      [] position_config.sizing = "fixed" ->
            [kind |-> "fixed", value |-> position_config.value]
      [] OTHER -> [kind |-> "zero", value |-> 0]

\* the text of compile's template with the three generated fragments in
\* place: the GeneratedStrategy class the template spells out, which is the
\* strategy_code run_backtest is given
GeneratedStrategy(strategy_dict) ==
    [entry  |-> _generate_entry_logic(strategy_dict.entry),
     exit   |-> _generate_exit_logic(strategy_dict.exit),
     sizing |-> _generate_position_sizing(strategy_dict.position)]

\* the replacement fields of the f-string that holds the template, in the
\* order Python evaluates them.  A brace that is not doubled opens a field: the
\* dictionary displays and the nested f-string of the template are fields too,
\* whose expression ends at the first colon and whose format specification is
\* the text after it.
TemplateFields ==
    << [expression |-> "textwrap.indent(sizing_code or 'return 0', ...)", format_spec |-> ""],
       [expression |-> "'side'",               format_spec |-> " side, 'reason': reason"],
       [expression |-> "'timestamp'",          format_spec |-> " timestamp, 'symbol': symbol, ..."],
       [expression |-> "action",               format_spec |-> ""],
       [expression |-> "order.executed.price", format_spec |-> ".2f"],
       [expression |-> "order.executed.value", format_spec |-> ".2f"],
       [expression |-> "order.executed.comm",  format_spec |-> ".2f"],
       [expression |-> "textwrap.indent(entry_code, ...)", format_spec |-> ""],
       [expression |-> "textwrap.indent(exit_code, ...)",  format_spec |-> ""] >>

\* format(value, format_spec) of the fields from the i-th on, in order: the
\* first that fails gives the exception.  The values compile's scope binds are
\* str, and of the specifications of the template a str accepts the empty one.
RECURSIVE FormatFields(_, _)
FormatFields(fields, i) ==
    LET InScope(expression) ==
            expression \in {"textwrap.indent(sizing_code or 'return 0', ...)",
                            "'side'", "'timestamp'",
                            "textwrap.indent(entry_code, ...)",
                            "textwrap.indent(exit_code, ...)"}
    IN  CASE i > Len(fields)                    -> "ok"
          [] ~InScope(fields[i].expression)     -> "NameError"
          [] fields[i].format_spec # ""         -> "ValueError"
          [] OTHER                              -> FormatFields(fields, i + 1)

\* StrategyCompiler.compile: the fragments are generated, then the f-string is
\* evaluated; the first field that fails raises out of compile
compile(strategy_dict) ==
    IF FormatFields(TemplateFields, 1) = "ok"
      THEN [raised |-> None, code |-> GeneratedStrategy(strategy_dict)]
      ELSE [raised |-> Some(FormatFields(TemplateFields, 1))]

(***************************************************************************)
(* The data feed (BacktestEngine._create_data_feed, IndicatorDataFeed).    *)
(***************************************************************************)
\* the lines IndicatorDataFeed declares
FeedLines ==
    {"sma_20", "sma_50", "sma_200", "ema_12", "ema_26", "rsi_14",
     "macd", "macd_signal", "macd_histogram", "bb_upper", "bb_middle", "bb_lower"}

\* the columns of the frame get_indicators_with_ohlcv returns
FrameColumns ==
    {"symbol", "date", "interval", "open", "high", "low", "close", "volume"}
        \cup FeedLines

\* a line is bound to its column when the frame has it, else left unbound (-1)
_create_data_feed(df, name) ==
    [name |-> name, rows |-> df,
     bound |-> {line \in FeedLines : line \in FrameColumns}]

\* the value of a stored column of a row: NULL when the row does not carry it
ColumnValue(row, column) ==
    IF column \in DOMAIN row THEN row[column] ELSE NaN

\* self.data.<line>[0]: an AttributeError for a line the feed does not declare,
\* NaN for a declared line that is not bound to a column
HasLine(line) == line \in FeedLines

LineValue(data, bar, line) ==
    IF line \in data.bound THEN ColumnValue(data.rows[bar], line) ELSE NaN

(***************************************************************************)
(* Python comparison of two floats, NaN being <<>>.                        *)
(***************************************************************************)
Compare(op, a, b) ==
    IF a = NaN \/ b = NaN
      THEN op = "!="
      ELSE CASE op = ">"  -> a[1] > b[1]
             [] op = "<"  -> a[1] < b[1]
             [] op = ">=" -> a[1] >= b[1]
             [] op = "<=" -> a[1] <= b[1]
             [] op = "==" -> a[1] = b[1]
             [] op = "!=" -> a[1] # b[1]

PythonComparisons == {">", "<", ">=", "<=", "==", "!="}

(***************************************************************************)
(* The broker (Backtrader's BackBroker as run_backtest configures it).     *)
(***************************************************************************)
\* percentage commission on the traded value: cents * percent = money units
GetCommission(size, price, commission) == Abs(size) * price * commission

\* set_slippage_perc(slippage_bps / 10000): the open moved against the order,
\* never beyond the bar's high (buy) or low (sell); prices in cents
SlipUp(row, slippage_bps) ==
    Min((row.open * (10000 + slippage_bps)) \div 100, Cents(row.high))

SlipDown(row, slippage_bps) ==
    Max((row.open * (10000 - slippage_bps)) \div 100, Cents(row.low))

\* variant: the order matched at the bar's close instead of its open
ExecPriceAtClose(side, row, slippage_bps) ==
    IF side = "buy" THEN (row.close * (10000 + slippage_bps)) \div 100
    ELSE (row.close * (10000 - slippage_bps)) \div 100

ExecPrice(side, row, slippage_bps) ==
    IF slippage_bps = 0 THEN Cents(row.open)
    ELSE IF side = "buy" THEN SlipUp(row, slippage_bps)
    ELSE SlipDown(row, slippage_bps)

\* Position.update: the new size and price, and the parts opened and closed
PositionUpdate(pos, size, price) ==
    LET newsize == pos.size + size
    IN  CASE newsize = 0 ->
               [size |-> 0, price |-> 0, opened |-> 0, closed |-> size]
          [] newsize # 0 /\ pos.size = 0 ->
               [size |-> newsize, price |-> price, opened |-> size, closed |-> 0]
          [] newsize # 0 /\ pos.size > 0 /\ size > 0 ->
               [size |-> newsize,
                price |-> (pos.price * pos.size + size * price) \div newsize,
                opened |-> size, closed |-> 0]
          [] newsize > 0 /\ pos.size > 0 /\ size <= 0 ->
               [size |-> newsize, price |-> pos.price, opened |-> 0, closed |-> size]
          [] newsize < 0 /\ pos.size > 0 /\ size <= 0 ->
               [size |-> newsize, price |-> price,
                opened |-> newsize, closed |-> 0 - pos.size]
          [] OTHER ->
               [size |-> newsize, price |-> price, opened |-> size, closed |-> 0]

SignedSize(o) == IF o.side = "buy" THEN o.size ELSE 0 - o.size

\* BackBroker._execute: the cash after the closed part is credited and the
\* opened part debited, commission included.  In the pseudo-execution of
\* check_submitted (real = FALSE) the price is the close the order was created
\* at and the result is only the remaining cash.
_execute(o, price, c, pos, commission, real) ==
    LET upd         == PositionUpdate(pos, SignedSize(o), price)
        pprice_orig == IF real THEN pos.price ELSE price
        pnl         == IF real THEN (0 - upd.closed) * (price - pprice_orig) ELSE 0
        closedvalue == (0 - upd.closed) * pprice_orig
        closedcomm  == IF upd.closed # 0
                         THEN GetCommission(upd.closed, price, commission) ELSE 0
        cash1       == IF upd.closed # 0
                         THEN c + CentsToMoney(closedvalue + pnl) - closedcomm ELSE c
        openedvalue == upd.opened * price
        openedcomm  == IF upd.opened # 0
                         THEN GetCommission(upd.opened, price, commission) ELSE 0
        cash2       == IF upd.opened # 0
                         THEN cash1 - CentsToMoney(openedvalue) - openedcomm ELSE cash1
        refused     == upd.opened # 0 /\ cash2 < 0
        execsize    == IF refused THEN upd.closed ELSE upd.closed + upd.opened
        newpos      == IF execsize = 0 THEN pos
                       ELSE LET u == PositionUpdate(pos, execsize, price)
                            IN  [size |-> u.size, price |-> u.price]
    IN  [cash     |-> IF real /\ refused THEN cash1 ELSE cash2,
         position |-> IF real THEN newpos ELSE [size |-> upd.size, price |-> upd.price],
         refused  |-> refused,
         execsize |-> execsize,
         closed   |-> upd.closed,
         opened   |-> IF refused THEN 0 ELSE upd.opened,
         price    |-> price,
         value    |-> CentsToMoney(closedvalue)
                        + (IF refused THEN 0 ELSE CentsToMoney(openedvalue)),
         comm     |-> closedcomm + (IF refused THEN 0 ELSE openedcomm),
         pnl      |-> CentsToMoney(pnl)]

\* an order's notification: the order as cloned at the time, with its status
\* variant: the notification carries the close the order was created at
NotificationAtCreation(o, status, ex) ==
    [status |-> status, side |-> o.side, created |-> o.created,
     reason |-> o.reason, data |-> o.data,
     size |-> ex.size, price |-> Cents(o.price), value |-> ex.value, comm |-> ex.comm]

Notification(o, status, ex) ==
    [status |-> status, side |-> o.side, created |-> o.created,
     reason |-> o.reason, data |-> o.data,
     size |-> ex.size, price |-> ex.price, value |-> ex.value, comm |-> ex.comm]

NotExecuted == [size |-> 0, price |-> 0, value |-> 0, comm |-> 0]

\* BackBroker.check_submitted: each submitted order is pseudo-executed at its
\* creation price on the running cash; accepted when cash remains, else Margin
RECURSIVE check_submitted(_, _, _, _, _)
check_submitted(queue, c, pos, commission, acc) ==
    IF queue = <<>> THEN acc
    ELSE LET o  == Head(queue)
             ex == _execute(o, Cents(o.price), c, pos, commission, FALSE)
         IN  IF ex.cash >= 0
               THEN check_submitted(Tail(queue), ex.cash, ex.position, commission,
                       [accepted |-> Append(acc.accepted, o),
                        notifs   |-> Append(acc.notifs,
                                            Notification(o, "Accepted", NotExecuted))])
               ELSE check_submitted(Tail(queue), ex.cash, ex.position, commission,
                       [accepted |-> acc.accepted,
                        notifs   |-> Append(acc.notifs,
                                            Notification(o, "Margin", NotExecuted))])

\* Trade.update for the closed and the opened part of an execution
TradeUpdate(tr, size, price, comm, bar) ==
    IF size = 0 THEN tr
    ELSE LET oldsize  == tr.size
             newsize  == oldsize + size
             opening  == oldsize = 0
             grows    == Abs(newsize) > Abs(oldsize)
             isclosed == oldsize # 0 /\ newsize = 0
         IN  [size       |-> newsize,
              price      |-> IF grows
                               THEN (oldsize * tr.price + size * price) \div newsize
                               ELSE tr.price,
              commission |-> tr.commission + comm,
              pnl        |-> tr.pnl + (IF grows THEN 0
                                       ELSE CentsToMoney((0 - size) * (price - tr.price))),
              baropen    |-> IF opening THEN bar ELSE tr.baropen,
              barlen     |-> bar - (IF opening THEN bar ELSE tr.baropen),
              isclosed   |-> isclosed]

NoTrade ==
    [size |-> 0, price |-> 0, commission |-> 0, pnl |-> 0,
     baropen |-> 0, barlen |-> 0, isclosed |-> FALSE]

\* what one execution leaves: the broker's cash and position, the order's
\* notifications, and the strategy's trade updated by the closed and then the
\* opened part (Strategy._addnotification)
Executed(o, b, ex, bar, commission) ==
    LET filled == [size |-> ex.execsize, price |-> ex.price,
                   value |-> ex.value, comm |-> ex.comm]
        done   == Notification(o, IF ex.refused THEN "Partial" ELSE "Completed", filled)
        margin == Notification(o, "Margin",
                               IF ex.execsize = 0 THEN NotExecuted ELSE filled)
        closedcomm == IF ex.closed # 0
                        THEN GetCommission(ex.closed, ex.price, commission) ELSE 0
        tr1 == TradeUpdate(IF b.trade.isclosed THEN NoTrade ELSE b.trade,
                           ex.closed, ex.price, closedcomm, bar)
        tr2 == TradeUpdate(IF tr1.isclosed /\ ex.opened # 0 THEN NoTrade ELSE tr1,
                           ex.opened, ex.price, ex.comm - closedcomm, bar)
    IN  [cash     |-> ex.cash,
         position |-> ex.position,
         notifs   |-> b.notifs
                        \o (IF ex.execsize # 0 THEN <<done>> ELSE <<>>)
                        \o (IF ex.refused THEN <<margin>> ELSE <<>>),
         trade    |-> IF ex.execsize # 0 THEN tr2 ELSE b.trade,
         tradespending |->
             b.tradespending
               \o (IF ex.closed # 0 THEN <<tr1>> ELSE <<>>)
               \o (IF ex.opened # 0 THEN <<tr2>> ELSE <<>>)]

\* the loop of BackBroker.next over the accepted market orders: each executes
\* at the bar's open moved by the slippage
RECURSIVE execute_pending(_, _, _, _, _)
execute_pending(queue, b, row, bar, cost) ==
    IF queue = <<>> THEN b
    ELSE execute_pending(Tail(queue),
            Executed(Head(queue), b,
                     _execute(Head(queue),
                              ExecPrice(Head(queue).side, row, cost.slippage_bps),
                              b.cash, b.position, cost.commission, TRUE),
                     bar, cost.commission),
            row, bar, cost)

\* BackBroker._get_value: cash plus the position at the bar's close
GetValue(c, pos, row) == c + Money(pos.size * row.close)

(***************************************************************************)
(* GeneratedStrategy (the class of StrategyCompiler.compile's template).   *)
(* Its fields are the record [order, buy_price, buy_comm, trade_log,       *)
(* _pending_signal].                                                       *)
(***************************************************************************)
\* __init__
StrategyInit ==
    [order |-> None, buy_price |-> None, buy_comm |-> None,
     trade_log |-> <<>>, _pending_signal |-> None]

\* _determine_size as generated by _generate_position_sizing; price is the
\* close in dollars, c the broker's cash
_determine_size(sizing, price, c) ==
    CASE sizing.kind = "percent_cash" ->
            IF price <= 0 THEN 0
            ELSE IF c <= 0 THEN 0
            ELSE LET size == (c * sizing.value) \div (100 * Money(price))
                 IN  IF size <= 0 THEN Max(c \div Money(price), 0) ELSE Max(size, 0)
      [] sizing.kind = "fixed" -> Max(sizing.value, 0)
      [] OTHER -> 0

\* _place_order: nothing while an order is outstanding or for an empty size;
\* else the signal is remembered and a market order handed to the broker
_place_order(s, side, reason, size, bar, row, name) ==
    IF s.order # None THEN [strat |-> s, placed |-> <<>>]
    ELSE IF size <= 0 THEN [strat |-> s, placed |-> <<>>]
    ELSE LET o == [side |-> side, size |-> size, created |-> bar,
                   price |-> row.close, reason |-> Some(reason), data |-> name]
         IN  [strat  |-> [s EXCEPT !._pending_signal = Some([side |-> side, reason |-> reason]),
                                   !.order = Some(o)],
              placed |-> <<o>>]

\* the record notify_order appends for a completed order
TradeRecord(s, o, portfolio_value, bar) ==
    [timestamp       |-> bar,
     symbol          |-> o.data,
     action          |-> IF o.side = "buy" THEN "BUY" ELSE "SELL",
     size            |-> Abs(o.size),
     price           |-> o.price,
     value           |-> o.value,
     commission      |-> o.comm,
     reason          |-> IF o.reason # None THEN o.reason
                         ELSE IF s._pending_signal # None
                                 /\ s._pending_signal[1].side = o.side
                                THEN Some(s._pending_signal[1].reason)
                         ELSE None,
     portfolio_value |-> portfolio_value,
     alloc_pct       |-> IF portfolio_value # 0
                           THEN Some([num |-> Abs(o.value), den |-> portfolio_value])
                           ELSE None,
     pnl             |-> None,
     pnl_pct         |-> None,
     holding_period  |-> None]

\* variant: the slot and the signal are cleared only for a completed order
notify_order_completed(s, o, portfolio_value, bar) ==
    IF o.status \in {"Submitted", "Accepted"} THEN s
    ELSE IF o.status = "Completed"
      THEN [s EXCEPT
              !.buy_price = IF o.side = "buy" THEN Some(o.price) ELSE None,
              !.buy_comm  = IF o.side = "buy" THEN Some(o.comm) ELSE @,
              !.trade_log = Append(@, TradeRecord(s, o, portfolio_value, bar)),
              !.order = None, !._pending_signal = None]
      ELSE s

notify_order(s, o, portfolio_value, bar) ==
    IF o.status \in {"Submitted", "Accepted"} THEN s
    ELSE LET s1 == IF o.status = "Completed"
                     THEN [s EXCEPT
                             !.buy_price = IF o.side = "buy" THEN Some(o.price) ELSE None,
                             !.buy_comm  = IF o.side = "buy" THEN Some(o.comm) ELSE @,
                             !.trade_log = Append(@, TradeRecord(s, o, portfolio_value, bar))]
                     ELSE s
         IN  [s1 EXCEPT !.order = None, !._pending_signal = None]

\* notify_trade's walk back over the log: the last SELL without pnl, then the
\* BUY before it (a BUY met first ends the walk with no SELL)
RECURSIVE ScanLog(_, _, _, _)
ScanLog(log, i, symbol, sell) ==
    IF i = 0 THEN [sell |-> sell, buy |-> 0]
    ELSE IF log[i].symbol # symbol THEN ScanLog(log, i - 1, symbol, sell)
    ELSE IF sell = 0 /\ log[i].action = "SELL" /\ log[i].pnl = None
           THEN ScanLog(log, i - 1, symbol, i)
    ELSE IF log[i].action = "BUY" THEN [sell |-> sell, buy |-> i]
    ELSE ScanLog(log, i - 1, symbol, sell)

notify_trade(s, tr, symbol) ==
    IF ~tr.isclosed THEN s
    ELSE LET found == ScanLog(s.trade_log, Len(s.trade_log), symbol, 0)
             pnl   == tr.pnl - tr.commission
             basis == IF found.buy = 0 THEN 0
                      ELSE s.trade_log[found.buy].price * s.trade_log[found.buy].size
         IN  IF found.sell = 0 THEN s
             ELSE [s EXCEPT !.trade_log[found.sell] =
                      [@ EXCEPT !.pnl = Some(pnl),
                                !.pnl_pct = IF basis # 0
                                              THEN Some([num |-> pnl, den |-> CentsToMoney(basis)])
                                              ELSE None,
                                !.holding_period = Some(tr.barlen)]]

\* Strategy._notify: every queued order notification, then every queued trade
RECURSIVE NotifyOrders(_, _, _, _)
NotifyOrders(s, queue, portfolio_value, bar) ==
    IF queue = <<>> THEN s
    ELSE NotifyOrders(notify_order(s, Head(queue), portfolio_value, bar),
                      Tail(queue), portfolio_value, bar)

RECURSIVE NotifyTrades(_, _, _)
NotifyTrades(s, queue, symbol) ==
    IF queue = <<>> THEN s
    ELSE NotifyTrades(notify_trade(s, Head(queue), symbol), Tail(queue), symbol)

\* the value of one side of a generated comparison on the current bar
RhsValue(data, bar, rhs) ==
    IF "lit" \in DOMAIN rhs THEN Some(rhs.lit) ELSE LineValue(data, bar, rhs.line)

RhsHasLine(rhs) == "lit" \in DOMAIN rhs \/ HasLine(rhs.line)

\* the generated "if c1 and c2 and ...": left to right, stopping at the first
\* false comparison; reading a line the feed lacks raises AttributeError
RECURSIVE EvalEntry(_, _, _)
EvalEntry(parts, data, bar) ==
    IF parts = <<>> THEN "true"
    ELSE LET p == Head(parts)
         IN  IF ~HasLine(p.lhs) \/ ~RhsHasLine(p.rhs) THEN "raise"
             ELSE IF Compare(p.op, LineValue(data, bar, p.lhs), RhsValue(data, bar, p.rhs))
                    THEN EvalEntry(Tail(parts), data, bar)
             ELSE "false"

\* one generated exit clause: self.buy_price and close <=/>= buy_price * (1 -/+ pct)
\* variant: a stop compares the close with buy_price itself
ExitHoldsAtEntry(clause, buy_price, close) ==
    /\ buy_price # None
    /\ buy_price[1] # 0
    /\ IF clause.cmp = "<="
         THEN Cents(close) * 100 <= buy_price[1] * 100
         ELSE Cents(close) * 100 >= buy_price[1] * (100 + clause.percent)

ExitHolds(clause, buy_price, close) ==
    /\ buy_price # None
    /\ buy_price[1] # 0
    /\ IF clause.cmp = "<="
         THEN Cents(close) * 100 <= buy_price[1] * (100 - clause.percent)
         ELSE Cents(close) * 100 >= buy_price[1] * (100 + clause.percent)

\* the if/elif chain: the first clause that holds, 0 when none does
RECURSIVE FirstClause(_, _, _, _)
FirstClause(clauses, i, buy_price, close) ==
    IF i > Len(clauses) THEN 0
    ELSE IF ExitHolds(clauses[i], buy_price, close) THEN i
    ELSE FirstClause(clauses, i + 1, buy_price, close)

\* "if self.order: return" and "if not self.position"
OrderOutstanding(s) == s.order # None

\* variant: the position is never looked at, every bar is treated as flat
InMarketIgnored(pos) == FALSE

InMarket(pos) == pos.size # 0

\* "size = int(abs(self.position.size))" of the exit code
\* variant: one share is sold
ExitSizeOne(pos) == 1

ExitSize(pos) == Abs(pos.size)

\* next(): [strat, placed, raised]
next(s, code, data, bar, c, pos) ==
    LET row  == data.rows[bar]
        idle == [strat |-> s, placed |-> <<>>, raised |-> FALSE]
    IN  IF OrderOutstanding(s) THEN idle
        ELSE IF ~InMarket(pos)
          THEN IF code.entry.kind = "pass" THEN idle
               ELSE LET e == EvalEntry(code.entry.parts, data, bar)
                    IN  IF e = "raise"
                          THEN [strat |-> s, placed |-> <<>>, raised |-> TRUE]
                        ELSE IF e = "false" THEN idle
                        ELSE LET size == _determine_size(code.sizing, row.close, c)
                             IN  IF size > 0
                                   THEN _place_order(s, "buy", code.entry.reason, size,
                                                     bar, row, data.name)
                                          @@ [raised |-> FALSE]
                                   ELSE idle
          ELSE IF code.exit.kind = "pass" THEN idle
               ELSE LET size == ExitSize(pos)
                        k    == FirstClause(code.exit.clauses, 1, s.buy_price, row.close)
                    IN  IF size <= 0 \/ k = 0 THEN idle
                        ELSE _place_order(s, "sell", code.exit.clauses[k].reason, size,
                                          bar, row, data.name)
                               @@ [raised |-> FALSE]

\* the generated module text parses: every comparison has both sides and a
\* Python operator
SyntaxOK(code) ==
    \/ code.entry.kind = "pass"
    \/ \A i \in 1..Len(code.entry.parts) :
          /\ "text" \notin DOMAIN code.entry.parts[i].rhs
          /\ code.entry.parts[i].op \in PythonComparisons

(***************************************************************************)
(* EquityCurveAnalyzer                                                     *)
(***************************************************************************)
EquityRecord(bar, v, c, starting, prev) ==
    [timestamp  |-> bar,
     value      |-> v,
     cash       |-> c,
     pnl        |-> v - (IF starting # None /\ starting[1] # 0 THEN starting[1] ELSE v),
     return_pct |-> IF prev = None \/ prev[1] = 0
                      THEN [num |-> 0, den |-> 1]
                      ELSE [num |-> v - prev[1], den |-> prev[1]]]

(***************************************************************************)
(* The calls made to BacktestEngine.run_backtest.                          *)
(***************************************************************************)
\* the cost parameters of one call: commission in percent of the traded value
Cost(commission, slippage_bps) ==
    [initial_cash |-> 100, commission |-> commission, slippage_bps |-> slippage_bps,
     backtest_id |-> None]

\* a call with a backtest_id, as the Backtest page makes it, free of costs
CostStored(initial_cash) ==
    [initial_cash |-> initial_cash, commission |-> 0, slippage_bps |-> 0,
     backtest_id |-> Some("bt_1")]

Config(strategy, symbols, costs) ==
    [strategy |-> strategy, universe |-> symbols, calls |-> costs, stored |-> {"AAA"},
     user_code |-> <<>>]

\* the same with rows stored for every symbol
ConfigAllStored(strategy, symbols, costs) ==
    [strategy |-> strategy, universe |-> symbols, calls |-> costs, stored |-> Symbols,
     user_code |-> <<>>]

\* a call whose strategy_code is the caller's own text: these statements, then
\* the class of the template
ConfigUserCode(strategy, body) ==
    [strategy |-> strategy, universe |-> <<"AAA">>, calls |-> <<Cost(0, 0)>>,
     stored |-> {"AAA"}, user_code |-> body]

\* the rows stored for BBB when it has any: as many bars as AAA (the same
\* dates), SMA(20) = 11 on each
RowsOfBBB(rows) == [k \in 1..Len(rows) |-> Row(10, 10, Some(11), Some(10))]

\* the runs checked: a strategy, a universe, and the costs of one call or of
\* two successive calls
Configs ==
    { Config(StratStopThenProfit, <<"AAA">>, <<Cost(0, 0), Cost(1, 0)>>),
      Config(StratStopThenProfit, <<"AAA">>, <<Cost(0, 1000), Cost(0, 1000)>>),
      Config(StratCross, <<"AAA">>, <<Cost(0, 0), Cost(125, 0)>>),
      Config(StratCross, <<"AAA">>, <<Cost(1, 0), Cost(1, 0)>>),
      Config(StratTwoConds, <<"AAA">>, <<Cost(1, 1000), Cost(1, 1000)>>),
      Config(StratNoExit, <<"AAA">>, <<Cost(0, 0)>>),
      Config(StratShortSMA, <<"AAA">>, <<Cost(0, 0)>>),
      Config(StratBollinger, <<"AAA">>, <<Cost(0, 0)>>),
      Config(StratUnknownRhs, <<"AAA">>, <<Cost(0, 0)>>),
      Config(StratEmpty, <<"AAA">>, <<Cost(0, 0)>>),
      Config(StratZeroStop, <<"AAA">>, <<Cost(0, 0)>>),
      Config(StratOddExits, <<"AAA">>, <<Cost(0, 0)>>),
      Config(StratNotEqual, <<"AAA">>, <<Cost(0, 0)>>),
      Config(StratBadOperator, <<"AAA">>, <<Cost(0, 0)>>),
      Config(StratStopThenProfit, <<"BBB", "AAA">>, <<Cost(0, 0)>>),
      Config(StratStopThenProfit, <<"BBB">>, <<Cost(0, 0)>>),
      ConfigAllStored(StratStopThenProfit, <<"AAA", "BBB">>, <<Cost(0, 0)>>),
      Config(StratSmallTrailing, <<"AAA">>, <<Cost(0, 0)>>),
      Config(StratStopThenProfit, <<"AAA">>, <<CostStored(100)>>),
      Config(StratStopThenProfit, <<"AAA">>, <<CostStored(0)>>) }


(***************************************************************************)
(* CodeValidator (validator.py).  A Python source is modelled by what      *)
(* ast.parse makes of it: whether it parses, and the statements and        *)
(* expressions of its body that the validator looks at.  A dotted module name ('os.path') is the   *)
(* tuple of its components, an attribute name the tuple of its characters. *)
(***************************************************************************)
FORBIDDEN_MODULES ==
    {"os", "sys", "subprocess", "socket", "urllib", "requests",
     "http", "ftplib", "smtplib", "telnetlib", "paramiko",
     "shutil", "pathlib", "glob", "pickle", "shelve",
     "sqlite3", "psycopg2", "pymongo", "redis"}

FORBIDDEN_BUILTINS ==
    {"open", "exec", "eval", "compile", "__import__", "input", "raw_input", "file"}

\* ast nodes
Import(names) == [node |-> "Import", names |-> names]
ImportFrom(module) == [node |-> "ImportFrom", module |-> module]
Attribute(attr) == [node |-> "Attribute", attr |-> attr]
Call(func) == [node |-> "Call", func |-> func]
CallName(id) == Call([node |-> "Name", id |-> id])
FunctionDef(name) == [node |-> "FunctionDef", name |-> name]
ClassDef(name, body) == [node |-> "ClassDef", name |-> name, body |-> body]
\* a source ast.parse raises SyntaxError on, and a source it parses
Unparseable == [syntax_ok |-> FALSE, body |-> <<>>]
Module(body) == [syntax_ok |-> TRUE, body |-> body]

Violation(message, subject) == [message |-> message, subject |-> subject]

RECURSIVE Flatten(_)
Flatten(seqs) == IF seqs = <<>> THEN <<>> ELSE Head(seqs) \o Flatten(Tail(seqs))

\* ast.walk: every node with the nodes below it (the function of a call, the
\* body of a class)
ast_walk(body) ==
    LET Descend(node) ==
            <<node>> \o (CASE node.node = "Call"     -> <<node.func>>
                           [] node.node = "ClassDef" -> node.body
                           [] OTHER                  -> <<>>)
    IN  Flatten([i \in 1..Len(body) |-> Descend(body[i])])

\* name in FORBIDDEN_MODULES: the whole dotted name is compared, so only a name
\* of one component can be a member; a relative import has no module (<<>>)
InForbiddenModules(name) == Len(name) = 1 /\ name[1] \in FORBIDDEN_MODULES

_check_imports(tree) ==
    LET ImportViolations(node) ==
            CASE node.node = "Import" ->
                    [i \in 1..Len(SelectSeq(node.names, InForbiddenModules)) |->
                        Violation("Forbidden module import",
                                  SelectSeq(node.names, InForbiddenModules)[i])]
              [] node.node = "ImportFrom" ->
                    IF InForbiddenModules(node.module)
                      THEN <<Violation("Forbidden module import", node.module)>>
                      ELSE <<>>
              [] OTHER -> <<>>
    IN  Flatten([i \in 1..Len(tree) |-> ImportViolations(tree[i])])

_check_function_calls(tree) ==
    LET CallViolations(node) ==
            IF /\ node.node = "Call"
               /\ node.func.node = "Name"
               /\ node.func.id \in FORBIDDEN_BUILTINS
              THEN <<Violation("Forbidden function call", node.func.id)>>
              ELSE <<>>
    IN  Flatten([i \in 1..Len(tree) |-> CallViolations(tree[i])])

\* str.startswith('__') and str.endswith('__')
StartsWithDunder(attr) == Len(attr) >= 2 /\ SubSeq(attr, 1, 2) = <<"_", "_">>
EndsWithDunder(attr) ==
    Len(attr) >= 2 /\ SubSeq(attr, Len(attr) - 1, Len(attr)) = <<"_", "_">>

_check_attribute_access(tree) ==
    LET AttributeViolations(node) ==
            IF /\ node.node = "Attribute"
               /\ StartsWithDunder(node.attr)
               /\ EndsWithDunder(node.attr)
              THEN <<Violation("Forbidden attribute access", node.attr)>>
              ELSE <<>>
    IN  Flatten([i \in 1..Len(tree) |-> AttributeViolations(tree[i])])

\* the violations of the three checks, in the order validate runs them
Violations(tree) ==
    _check_imports(tree) \o _check_function_calls(tree) \o _check_attribute_access(tree)

validate(code) ==
    IF ~code.syntax_ok
      THEN [is_valid |-> FALSE, violations |-> <<Violation("Syntax error", "")>>]
      ELSE [is_valid   |-> Len(Violations(ast_walk(code.body))) = 0,
            violations |-> Violations(ast_walk(code.body))]

\* the two violations validate_backtrader_strategy adds
BacktraderViolations(tree) ==
    LET has_class == \E i \in 1..Len(tree) : tree[i].node = "ClassDef"
        has_next_method ==
            \E i \in 1..Len(tree) :
                /\ tree[i].node = "ClassDef"
                /\ \E k \in 1..Len(tree[i].body) :
                      /\ tree[i].body[k].node = "FunctionDef"
                      /\ tree[i].body[k].name = "next"
    IN  (IF has_class THEN <<>>
           ELSE <<Violation("Code must define a strategy class", "")>>)
        \o (IF has_next_method THEN <<>>
              ELSE <<Violation("Strategy class must have a next() method", "")>>)

validate_backtrader_strategy(code) ==
    IF ~validate(code).is_valid
      THEN validate(code)
      ELSE [is_valid   |-> Len(validate(code).violations
                                 \o BacktraderViolations(ast_walk(code.body))) = 0,
            violations |-> validate(code).violations
                             \o BacktraderViolations(ast_walk(code.body))]

\* the sources validated: a source that does not parse, and every module of at
\* most MaxNodes of these nodes
MaxNodes == 2

Nodes ==
    { Import(<< <<"os">> >>),                       \* import os
      Import(<< <<"os", "path">> >>),               \* import os.path
      Import(<< <<"backtrader">>, <<"sys">> >>),    \* import backtrader, sys
      Import(<< <<"backtrader">> >>),               \* import backtrader as bt
      ImportFrom(<<"subprocess">>),                 \* from subprocess import run
      ImportFrom(<<"os", "path">>),                 \* from os.path import join
      ImportFrom(<<>>),                             \* from . import helpers
      CallName("open"),                           \* open(...)
      CallName("print"),                          \* print(...)
      Call(Attribute(<<"s", "y", "s", "t", "e", "m">>)),  \* os.system(...)
      Attribute(<<"_", "_", "d", "o", "c", "_", "_">>),   \* x.__doc__
      Attribute(<<"_", "_", "x">>),                 \* x.__x
      Attribute(<<"c", "l", "o", "s", "e">>),       \* x.close
      ClassDef("TestStrategy", <<FunctionDef("__init__"), FunctionDef("next")>>),
      ClassDef("Helper", <<FunctionDef("log")>>),
      FunctionDef("next") }                         \* def next(): at module level

RECURSIVE SeqsUpTo(_, _)
SeqsUpTo(S, n) ==
    IF n = 0 THEN {<<>>}
    ELSE SeqsUpTo(S, n - 1)
           \cup {Append(s, x) : s \in {t \in SeqsUpTo(S, n - 1) : Len(t) = n - 1}, x \in S}

Codes == {Unparseable} \cup {Module(body) : body \in SeqsUpTo(Nodes, MaxNodes)}

\* the body of the text of the template, as far as the validator looks at it
TemplateBody ==
    << Import(<< <<"backtrader">> >>),
       ClassDef("GeneratedStrategy",
                <<FunctionDef("__init__"), FunctionDef("_determine_size"),
                  FunctionDef("_place_order"), FunctionDef("notify_order"),
                  FunctionDef("notify_trade"), FunctionDef("next"), FunctionDef("log")>>),
       CallName("hasattr"), CallName("getattr"), CallName("float"),
       CallName("isinstance"), CallName("abs"), CallName("str"),
       CallName("reversed"), CallName("print"),
       Attribute(<<"_", "p", "e", "n", "d", "i", "n", "g", "_", "s", "i", "g", "n", "a", "l">>),
       Attribute(<<"t", "r", "a", "d", "e", "_", "l", "o", "g">>),
       Attribute(<<"d", "a", "t", "a">>), Attribute(<<"c", "l", "o", "s", "e">>) >>

\* ast.parse of a text of the template: it parses when the generated fragments do
ast_parse(strategy_code) ==
    IF SyntaxOK(strategy_code) THEN Module(TemplateBody) ELSE Unparseable

\* the sources handed to run_backtest by a caller who wrote the text: what
\* stands before the class
UserCodes ==
    { << Import(<< <<"os">> >>) >>,                          \* import os
      << ImportFrom(<<"subprocess">>) >>,                    \* from subprocess import run
      << CallName("open") >>,                                \* open('/dev/null')
      << Attribute(<<"_", "_", "d", "o", "c", "_", "_">>) >>,  \* bt.__doc__
      << CallName("print") >> }                              \* print('loaded')

\* ast.parse of the text run_backtest is given
ParseSource(statements, strategy_code) ==
    IF SyntaxOK(strategy_code) THEN Module(statements \o TemplateBody) ELSE Unparseable

(***************************************************************************)
(* MetricsCalculator (metrics.py).  An equity curve is the sequence of its *)
(* 'value' column, dated on successive days.  A float result is NaN, an    *)
(* infinity, an exact fraction num/den, or a finite number whose value the *)
(* model does not compute (a power or a square root; nothing overflows on  *)
(* the curves of the model).  Fractions are compared exactly.              *)
(***************************************************************************)
Num(n, d) == [kind |-> "num", num |-> n, den |-> d]
Zero == Num(0, 1)
FloatNaN == [kind |-> "nan"]
FloatInf == [kind |-> "inf"]
Finite == [kind |-> "finite"]

\* equity_curve['value'].pct_change().dropna(): the change from each value to
\* the next; x/0 is inf, 0/0 is NaN and dropped
PctChange(prev, cur) ==
    IF prev = 0 THEN (IF cur = 0 THEN FloatNaN ELSE FloatInf)
    ELSE Num(cur - prev, prev)

NotNaN(x) == x.kind # "nan"

Returns(values) ==
    SelectSeq([t \in 1..(Len(values) - 1) |-> PctChange(values[t], values[t + 1])], NotNaN)

\* Series.std() (ddof = 1): NaN for fewer than two samples and when a sample
\* is infinite, else zero exactly when all samples are equal
Std(series) ==
    IF Len(series) < 2 THEN "nan"
    ELSE IF \E i \in 1..Len(series) : series[i].kind = "inf" THEN "nan"
    ELSE IF \A i, j \in 1..Len(series) :
                series[i].num * series[j].den = series[j].num * series[i].den
           THEN "zero"
    ELSE "positive"

total_return(values) ==
    IF Len(values) < 2 THEN Zero
    ELSE IF values[1] = 0 THEN Zero
    ELSE Num(values[Len(values)] - values[1], values[1])

\* years = (end_date - start_date).days / 365.25
cagr(values) ==
    IF Len(values) < 2 THEN Zero
    ELSE IF Len(values) - 1 <= 0 \/ values[1] <= 0 THEN Zero
    ELSE Finite

\* values.cummax() at t
\* variant: the maximum of the whole curve
MaxOfAll(values, t) ==
    CHOOSE m \in {values[u] : u \in 1..Len(values)} : \A u \in 1..Len(values) : values[u] <= m

CumMax(values, t) == CHOOSE m \in {values[u] : u \in 1..t} : \A u \in 1..t : values[u] <= m

\* ((values - cummax) / cummax).min(): 0/0 is NaN, and min skips NaN unless
\* every element is NaN
max_drawdown(values) ==
    IF values = <<>> THEN Zero
    ELSE IF \A t \in 1..Len(values) : CumMax(values, t) = 0 THEN FloatNaN
    ELSE LET t == CHOOSE t \in 1..Len(values) :
                    /\ CumMax(values, t) # 0
                    /\ \A u \in 1..Len(values) :
                          CumMax(values, u) # 0 =>
                             (values[t] - CumMax(values, t)) * CumMax(values, u)
                                <= (values[u] - CumMax(values, u)) * CumMax(values, t)
         IN  Num(values[t] - CumMax(values, t), CumMax(values, t))

\* "returns.std() == 0" is false for a NaN deviation
sharpe_ratio(returns) ==
    IF returns = <<>> \/ Std(returns) = "zero" THEN Zero
    ELSE IF Std(returns) = "nan" THEN FloatNaN
    ELSE Finite

\* returns < daily_rf: daily_rf = 1.02 ** (1/252) - 1 lies between 0 and the
\* smallest positive change of the curves of the model
BelowDailyRf(r) == r.kind = "num" /\ r.num <= 0

sortino_ratio(returns) ==
    IF returns = <<>> THEN Zero
    ELSE IF Len(SelectSeq(returns, BelowDailyRf)) = 0
              \/ Std(SelectSeq(returns, BelowDailyRf)) = "zero" THEN Zero
    ELSE IF Std(SelectSeq(returns, BelowDailyRf)) = "nan" THEN FloatNaN
    ELSE IF \E i \in 1..Len(returns) : returns[i].kind = "inf" THEN FloatInf
    ELSE Finite

\* cagr / abs(max_drawdown): "max_dd == 0" is false for NaN
calmar_ratio(values) ==
    IF max_drawdown(values).kind = "nan" THEN FloatNaN
    ELSE IF max_drawdown(values).num = 0 THEN Zero
    ELSE IF cagr(values) = Zero THEN Zero
    ELSE Finite

MetricKeys == {"tot_return", "cagr", "max_dd", "sharpe", "sortino", "calmar"}

\* the six metrics, computed one by one
EachMetric(values) ==
    [tot_return |-> total_return(values),
     cagr       |-> cagr(values),
     max_dd     |-> max_drawdown(values),
     sharpe     |-> sharpe_ratio(Returns(values)),
     sortino    |-> sortino_ratio(Returns(values)),
     calmar     |-> calmar_ratio(values)]

\* calculate_metrics without a benchmark: {} for an empty curve
calculate_metrics(values) ==
    IF values = <<>> THEN [key \in {} |-> Zero] ELSE EachMetric(values)

\* the curves measured: at most MaxCurve values from 0 to MaxValue
MaxCurve == 4
MaxValue == 3
EquityCurves == SeqsUpTo(0..MaxValue, MaxCurve)

(***************************************************************************)
(* IndicatorCalculator (indicators.py) on the 'close' column of a frame.   *)
(* Series are sequences of floats as above.                                *)
(***************************************************************************)
\* delta.where(delta > 0, 0) and -delta.where(delta < 0, 0) at row t: the first
\* delta is NaN, which neither comparison holds for, so 0 is put in its place
Gain(closes, t) ==
    IF t > 1 /\ closes[t] - closes[t - 1] > 0 THEN closes[t] - closes[t - 1] ELSE 0
Loss(closes, t) ==
    IF t > 1 /\ closes[t] - closes[t - 1] < 0 THEN closes[t - 1] - closes[t] ELSE 0

\* the sum of the gains, or of the losses, over the window of period rows that
\* ends at row t
RECURSIVE WindowSum(_, _, _, _)
WindowSum(side, closes, t, period) ==
    IF period = 0 THEN 0
    ELSE (IF side = "gain" THEN Gain(closes, t) ELSE Loss(closes, t))
           + WindowSum(side, closes, t - 1, period - 1)

\* gain / loss of the two rolling means (the quotient of the window sums):
\* NaN while the window is not full, x/0 is inf and 0/0 is NaN
Rs(closes, t, period) ==
    IF t < period THEN FloatNaN
    ELSE IF WindowSum("loss", closes, t, period) = 0
           THEN (IF WindowSum("gain", closes, t, period) = 0 THEN FloatNaN ELSE FloatInf)
    ELSE Num(WindowSum("gain", closes, t, period), WindowSum("loss", closes, t, period))

\* 100 - (100 / (1 + rs)): NaN stays NaN, 100/inf is 0
calculate_rsi(closes, period) ==
    [t \in 1..Len(closes) |->
        CASE Rs(closes, t, period).kind = "nan" -> FloatNaN
          [] Rs(closes, t, period).kind = "inf" -> Num(100, 1)
          [] OTHER -> Num(100 * Rs(closes, t, period).num,
                          Rs(closes, t, period).num + Rs(closes, t, period).den)]

\* Rolling(window=period): min_periods is the window when it is not given
\* variant: one observation is enough
min_periods_one(period) == 1

min_periods(period) == period

\* the rolling sum pandas keeps up to row t: each row is added and the row that
\* leaves the window removed
RECURSIVE RollSum(_, _, _)
RollSum(closes, t, period) ==
    IF t = 0 THEN 0
    ELSE RollSum(closes, t - 1, period) + closes[t]
           - (IF t > period THEN closes[t - period] ELSE 0)

\* data['close'].rolling(window=period).mean(): the sum over the observations
\* in the window, NaN while these are fewer than min_periods
calculate_sma(closes, period) ==
    [t \in 1..Len(closes) |->
        IF Min(t, period) >= min_periods(period)
          THEN Num(RollSum(closes, t, period), Min(t, period))
          ELSE FloatNaN]

\* the frames the indicators are computed of: at most MaxRows closes from 1 to
\* MaxClose, and the periods
MaxRows == 5
MaxClose == 3
Closes == SeqsUpTo(1..MaxClose, MaxRows)
Periods == {2, 3}

(***************************************************************************)
(* State                                                                   *)
(***************************************************************************)
VARIABLES
    code,               \* the source handed to the validator
    validation,         \* what the validator, or compile and the validator, returned
    equity_curve,       \* the curve handed to the metrics calculator
    metrics,            \* what the metrics calculator returned
    closes,             \* the 'close' column of the frame an indicator is computed of
    period,             \* the indicator's period
    series              \* the Series the indicator calculator returned

VARIABLES
    strategy_dict,      \* the strategy definition the code was compiled from
    strategy_code,      \* run_backtest's strategy_code: the text of the template
    user_code,          \* the statements the caller's text has before the template
    universe,           \* run_backtest's universe
    table,              \* the stored rows of each symbol
    calls,              \* the cost parameters of the successive calls
    call,               \* the call in progress
    pc,                 \* where run_backtest stands
    returned,           \* what the calls so far returned
    datas,              \* cerebro's data feeds
    bar,                \* len(data): the bar being processed
    exc,                \* the exception cerebro.run() raised, if any
    run_starting_value, \* run_backtest's starting_value
    cash, value, position, submitted, notifs,   \* the broker
    trade, tradespending,                       \* the strategy's trade bookkeeping
    strat,              \* the GeneratedStrategy instance
    records, prev_value, starting_value,        \* the EquityCurveAnalyzer
    db                  \* the tables equity_curves and backtests (id and artifacts)

inputs == <<strategy_dict, strategy_code, user_code, universe, table, calls>>
brokervars == <<cash, value, position, submitted, notifs, trade, tradespending>>
analyzervars == <<records, prev_value, starting_value>>
metricsvars == <<equity_curve, metrics>>
indicatorvars == <<closes, period, series>>
libvars == <<code, validation, metricsvars, indicatorvars>>
backtestvars == <<inputs, call, pc, returned, datas, bar, exc, run_starting_value,
                  brokervars, strat, analyzervars, db>>
vars == <<libvars, backtestvars>>

cost == calls[call]

\* the database before the first call: the row the Backtest page inserts into
\* backtests before it calls run_backtest, without artifacts, and no equity row
EmptyDb == [equity_curves |-> {}, artifacts |-> [id \in {"bt_1"} |-> None]]

\* the state before the first call: nothing has run
InitWith(configs, rowseqs) ==
    /\ \E cfg \in configs, rows \in rowseqs :
          /\ strategy_dict = cfg.strategy
          /\ strategy_code = GeneratedStrategy(cfg.strategy)
          /\ user_code = cfg.user_code
          /\ universe = cfg.universe
          /\ calls = cfg.calls
          /\ table = [sym \in Symbols |->
                        IF sym \notin cfg.stored THEN <<>>
                        ELSE IF sym = "AAA" THEN rows
                        ELSE RowsOfBBB(rows)]
    /\ code = Module(<<>>)
    /\ validation = None
    /\ equity_curve = <<>>
    /\ metrics = [called |-> FALSE]
    /\ closes = <<>>
    /\ period = 2
    /\ series = [called |-> FALSE]
    /\ db = EmptyDb
    /\ call = 1
    /\ pc = "call"
    /\ returned = <<>>
    /\ datas = <<>>
    /\ bar = 0
    /\ exc = None
    /\ run_starting_value = 0
    /\ cash = 0
    /\ value = 0
    /\ position = [size |-> 0, price |-> 0]
    /\ submitted = <<>>
    /\ notifs = <<>>
    /\ trade = NoTrade
    /\ tradespending = <<>>
    /\ strat = StrategyInit
    /\ records = <<>>
    /\ prev_value = None
    /\ starting_value = None

Init ==
    InitWith(Configs \cup {ConfigUserCode(StratStopThenProfit, body) : body \in UserCodes},
             RowSeqs)

\* INSERT OR REPLACE of the records that have a timestamp, keyed by bt_id and
\* timestamp, then commit
_store_equity_curve(d, bt_id, equity_records) ==
    LET rows == {[bt_id |-> bt_id, record |-> equity_records[i]] :
                    i \in 1..Len(equity_records)}
        Replaced(old) == \E new \in rows :
                            new.bt_id = old.bt_id
                              /\ new.record.timestamp = old.record.timestamp
    IN  IF rows = {} THEN d
        ELSE [d EXCEPT !.equity_curves = {old \in @ : ~Replaced(old)} \cup rows]

\* UPDATE backtests SET artifacts: the stored artifacts with 'trade_log' set;
\* nothing when the table has no row of this id
_update_backtest_artifacts(d, bt_id, trade_log) ==
    IF bt_id \notin DOMAIN d.artifacts THEN d
    ELSE [d EXCEPT !.artifacts[bt_id] = Some([trade_log |-> trade_log])]

\* get_indicators_with_ohlcv
get_indicators_with_ohlcv(symbol) == table[symbol]

\* the feeds the loop over the universe adds: a symbol with no rows is skipped
RECURSIVE LoadFeeds(_)
LoadFeeds(symbols) ==
    IF symbols = <<>> THEN <<>>
    ELSE LET df == get_indicators_with_ohlcv(Head(symbols))
         IN  IF df = <<>> THEN LoadFeeds(Tail(symbols))
             ELSE <<_create_data_feed(df, Head(symbols))>> \o LoadFeeds(Tail(symbols))

\* variant: a run without feeds reported as an empty successful run
NoFeedsAsEmptyRun ==
    [success |-> TRUE, starting_value |-> 0, ending_value |-> 0,
     total_return |-> [num |-> 0, den |-> 1], equity_curve |-> <<>>, trade_log |-> <<>>]

NoFeedsResult == [success |-> FALSE, error |-> "No data feeds could be loaded"]

CompileFailedResult(e) ==
    [success |-> FALSE, error |-> "Strategy compilation failed: " \o e]

\* variant: the handler returns the flag without a message
ExecutionFailedNoMessage(e) == [success |-> FALSE]

ExecutionFailedResult(e) ==
    [success |-> FALSE, error |-> "Backtest execution failed: " \o e]

SuccessResult(starting, ending, equity_records, log) ==
    [success        |-> TRUE,
     starting_value |-> starting,
     ending_value   |-> ending,
     total_return   |-> [num |-> ending - starting, den |-> starting],
     equity_curve   |-> equity_records,
     trade_log      |-> log]

\* run_backtest up to the check of data_feeds_loaded: a fresh cerebro with the
\* call's cash, and the feeds of the universe
LoadDataFeeds ==
    /\ pc = "call"
    /\ cash' = Money(cost.initial_cash)
    /\ value' = Money(cost.initial_cash)
    /\ position' = [size |-> 0, price |-> 0]
    /\ submitted' = <<>>
    /\ notifs' = <<>>
    /\ trade' = NoTrade
    /\ tradespending' = <<>>
    /\ datas' = LoadFeeds(universe)
    /\ bar' = 0
    /\ exc' = None
    /\ IF Len(datas') = 0
         THEN /\ returned' = Append(returned, NoFeedsResult)
              /\ pc' = "returned"
         ELSE /\ returned' = returned
              /\ pc' = "compile"
    /\ UNCHANGED <<libvars, db, inputs, call, run_starting_value, strat, analyzervars>>

\* _compile_strategy inside its try: exec of the code raises on a syntax error,
\* and otherwise runs the statements of the text and defines the class; the
\* code is not shown to the validator
CompileStrategy ==
    /\ pc = "compile"
    /\ IF SyntaxOK(strategy_code)
         THEN /\ returned' = returned
              /\ pc' = "run"
         ELSE /\ returned' = Append(returned, CompileFailedResult("invalid syntax"))
              /\ pc' = "returned"
    /\ UNCHANGED <<libvars, db, inputs, call, datas, bar, exc, run_starting_value,
                   brokervars, strat, analyzervars>>

\* variant: trade_log is one list shared by every instance of the class
StrategySharesLog(previous) == [StrategyInit EXCEPT !.trade_log = previous.trade_log]

\* GeneratedStrategy.__init__ of the instance cerebro.run() creates
StrategyNew(previous) == StrategyInit

\* starting_value = broker.getvalue(); cerebro.run() instantiates the strategy
\* and starts the analyzer, and moves to the first bar
RunStart ==
    /\ pc = "run"
    /\ run_starting_value' = value
    /\ strat' = StrategyNew(strat)
    /\ records' = <<>>
    /\ prev_value' = None
    /\ starting_value' = Some(value)
    /\ bar' = 1
    /\ pc' = "broker"
    /\ UNCHANGED <<libvars, db, inputs, call, returned, datas, exc, brokervars>>

\* BackBroker.next on the new bar: the submitted orders are checked, the
\* accepted ones executed, the value recomputed at the bar's close
BrokerNext ==
    /\ pc = "broker"
    /\ \E chk \in {check_submitted(submitted, cash, position, cost.commission,
                                   [accepted |-> <<>>, notifs |-> <<>>])} :
       \E b \in {execute_pending(chk.accepted,
                                 [cash |-> cash, position |-> position,
                                  notifs |-> notifs \o chk.notifs,
                                  trade |-> trade, tradespending |-> tradespending],
                                 datas[1].rows[bar], bar, cost)} :
           /\ cash' = b.cash
           /\ position' = b.position
           /\ notifs' = b.notifs
           /\ trade' = b.trade
           /\ tradespending' = b.tradespending
           /\ value' = GetValue(b.cash, b.position, datas[1].rows[bar])
    /\ submitted' = <<>>
    /\ pc' = "notify"
    /\ UNCHANGED <<libvars, db, inputs, call, returned, datas, bar, exc, run_starting_value,
                   strat, analyzervars>>

\* Strategy._notify: notify_order for each queued notification, then
\* notify_trade for each queued trade
\* variant: the trades are notified before the orders
NotifyTradesFirst ==
    /\ pc = "notify"
    /\ strat' = NotifyOrders(NotifyTrades(strat, tradespending, datas[1].name),
                             notifs, value, bar)
    /\ notifs' = <<>>
    /\ tradespending' = <<>>
    /\ pc' = "next"
    /\ UNCHANGED <<libvars, db, inputs, call, returned, datas, bar, exc, run_starting_value,
                   cash, value, position, submitted, trade, analyzervars>>

Notify ==
    /\ pc = "notify"
    /\ strat' = NotifyTrades(NotifyOrders(strat, notifs, value, bar),
                             tradespending, datas[1].name)
    /\ notifs' = <<>>
    /\ tradespending' = <<>>
    /\ pc' = "next"
    /\ UNCHANGED <<libvars, db, inputs, call, returned, datas, bar, exc, run_starting_value,
                   cash, value, position, submitted, trade, analyzervars>>

\* GeneratedStrategy.next on the bar; an order it places is submitted to the
\* broker; an exception ends cerebro.run()
StrategyNext ==
    /\ pc = "next"
    /\ LET r == next(strat, strategy_code, datas[1], bar, cash, position)
       IN  /\ strat' = r.strat
           /\ submitted' = submitted \o r.placed
           /\ notifs' = notifs \o [i \in 1..Len(r.placed) |->
                                     Notification(r.placed[i], "Submitted", NotExecuted)]
           /\ IF r.raised
                THEN /\ exc' = Some("object has no attribute")
                     /\ pc' = "except"
                ELSE /\ exc' = exc
                     /\ pc' = "analyzer"
    /\ UNCHANGED <<libvars, db, inputs, call, returned, datas, bar, run_starting_value,
                   cash, value, position, trade, tradespending, analyzervars>>

\* EquityCurveAnalyzer.next, then cerebro moves to the next bar or ends the run
AnalyzerNext ==
    /\ pc = "analyzer"
    /\ records' = Append(records, EquityRecord(bar, value, cash, starting_value, prev_value))
    /\ prev_value' = Some(value)
    /\ IF bar < Len(datas[1].rows)
         THEN /\ bar' = bar + 1
              /\ pc' = "broker"
         ELSE /\ bar' = bar
              /\ pc' = "collect"
    /\ UNCHANGED <<libvars, db, inputs, call, returned, datas, exc, run_starting_value,
                   brokervars, strat, starting_value>>

\* run_backtest after cerebro.run(): the equity records and the trade log are
\* stored under the backtest_id, then the result is built, or ZeroDivisionError
\* raised when the starting value is 0
Collect ==
    /\ pc = "collect"
    /\ db' = IF cost.backtest_id = None THEN db
             ELSE _update_backtest_artifacts(
                     IF records # <<>>
                       THEN _store_equity_curve(db, cost.backtest_id[1], records)
                       ELSE db,
                     cost.backtest_id[1], strat.trade_log)
    /\ returned' = Append(returned,
          IF run_starting_value = 0
            THEN ExecutionFailedResult("float division by zero")
            ELSE SuccessResult(run_starting_value, value, records, strat.trade_log))
    /\ pc' = "returned"
    /\ UNCHANGED <<libvars, inputs, call, datas, bar, exc, run_starting_value,
                   brokervars, strat, analyzervars>>

\* run_backtest's handler of an exception of cerebro.run()
ExecutionFailed ==
    /\ pc = "except"
    /\ returned' = Append(returned, ExecutionFailedResult(exc[1]))
    /\ pc' = "returned"
    /\ UNCHANGED <<libvars, db, inputs, call, datas, bar, exc, run_starting_value,
                   brokervars, strat, analyzervars>>

\* the caller runs another backtest after the previous one returned
NextCall ==
    /\ pc = "returned"
    /\ call < Len(calls)
    /\ call' = call + 1
    /\ pc' = "call"
    /\ UNCHANGED <<libvars, db, inputs, returned, datas, bar, exc, run_starting_value,
                   brokervars, strat, analyzervars>>

Next ==
    \/ NextCall
    \/ LoadDataFeeds
    \/ CompileStrategy
    \/ RunStart
    \/ BrokerNext
    \/ Notify
    \/ StrategyNext
    \/ AnalyzerNext
    \/ Collect
    \/ ExecutionFailed

Spec == Init /\ [][Next]_vars

\* one call of run_backtest runs to its return: cerebro.run() is a loop over
\* the bars in one thread and no step of it waits for anything
RunStep ==
    \/ LoadDataFeeds
    \/ CompileStrategy
    \/ RunStart
    \/ BrokerNext
    \/ Notify
    \/ StrategyNext
    \/ AnalyzerNext
    \/ Collect
    \/ ExecutionFailed

\* the runs whose progress is checked: orders that fill, orders the broker
\* refuses for their margin, a run that ends in an exception
LiveConfigs ==
    { Config(StratStopThenProfit, <<"AAA">>, <<Cost(0, 0), Cost(1, 0)>>),
      Config(StratCross, <<"AAA">>, <<Cost(125, 0)>>),
      Config(StratShortSMA, <<"AAA">>, <<Cost(0, 0)>>) }

\* the bars of the runs whose progress is checked
MaxLiveBars == 3

SpecLive ==
    /\ InitWith(LiveConfigs, UNION {[1..n -> RowSet] : n \in 0..MaxLiveBars})
    /\ [][Next]_vars
    /\ WF_vars(RunStep)

\* the same runs over one bar more, which a second round trip needs
SpecLong == InitWith(LiveConfigs, [1..MaxBars + 1 -> RowSet]) /\ [][Next]_vars

(***************************************************************************)
(* The compiler and the validator called on their own, as the Strategy     *)
(* Builder page and example.py call them                                   *)
(***************************************************************************)
\* RSI(14) < 30 AND MACD >= 0 AND EMA(12) > EMA(26); trailing stop 8%; a quarter
\* of the cash
StratRsiMacd ==
    StrategyDict(<<Cond("RSI", 14, "<", Lit(30)), Cond("MACD", 14, ">=", Lit(0)),
                   Cond("EMA", 12, ">", Ind("EMA", 26))>>,
                 <<ExitCond("trailing_stop", 8)>>, Sizing("percent_cash", 25))
\* SMA(20) <= BBANDS(20); stop loss 10%; 1 share
StratBandsRhs ==
    StrategyDict(<<Cond("SMA", 20, "<=", Ind("BBANDS", 20))>>,
                 <<ExitCond("stop_loss", 10)>>, Sizing("fixed", 1))

\* definitions that use the documented indicators, operators, exits and sizings
DocumentedStrategies ==
    {StratStopThenProfit, StratCross, StratTwoConds, StratBollinger,
     StratRsiMacd, StratBandsRhs}

\* no backtest is running
BacktestIdle ==
    /\ db = EmptyDb
    /\ user_code = <<>>
    /\ universe = <<>>
    /\ calls = <<>>
    /\ table = [sym \in Symbols |-> <<>>]
    /\ call = 1
    /\ pc = "idle"
    /\ returned = <<>>
    /\ datas = <<>>
    /\ bar = 0
    /\ exc = None
    /\ run_starting_value = 0
    /\ cash = 0
    /\ value = 0
    /\ position = [size |-> 0, price |-> 0]
    /\ submitted = <<>>
    /\ notifs = <<>>
    /\ trade = NoTrade
    /\ tradespending = <<>>
    /\ strat = StrategyInit
    /\ records = <<>>
    /\ prev_value = None
    /\ starting_value = None

InitValidator ==
    /\ code \in Codes
    /\ validation = None
    /\ equity_curve = <<>>
    /\ metrics = [called |-> FALSE]
    /\ closes = <<>>
    /\ period = 2
    /\ series = [called |-> FALSE]
    /\ strategy_dict \in DocumentedStrategies
    /\ strategy_code = GeneratedStrategy(strategy_dict)
    /\ BacktestIdle

\* validator.validate(code)
Validate ==
    /\ validation = None
    /\ validation' = [method |-> "validate"] @@ validate(code)
    /\ UNCHANGED <<code, metricsvars, indicatorvars, backtestvars>>

\* validator.validate_backtrader_strategy(code)
ValidateBacktraderStrategy ==
    /\ validation = None
    /\ validation' = [method |-> "validate_backtrader_strategy"]
                        @@ validate_backtrader_strategy(code)
    /\ UNCHANGED <<code, metricsvars, indicatorvars, backtestvars>>

\* code = compiler.compile(strategy_dict), then
\* validator.validate_backtrader_strategy(code): an exception of compile leaves
\* nothing to validate
CompileAndValidate ==
    /\ validation = None
    /\ validation' =
          IF compile(strategy_dict).raised # None
            THEN [method |-> "compile", raised |-> compile(strategy_dict).raised]
            ELSE [method |-> "compile", raised |-> None,
                  code |-> ast_parse(compile(strategy_dict).code)]
                   @@ validate_backtrader_strategy(ast_parse(compile(strategy_dict).code))
    /\ UNCHANGED <<code, metricsvars, indicatorvars, backtestvars>>

NextValidator ==
    \/ Validate
    \/ ValidateBacktraderStrategy
    \/ CompileAndValidate

SpecValidator == InitValidator /\ [][NextValidator]_vars

(***************************************************************************)
(* The metrics calculator called on an equity curve                        *)
(***************************************************************************)
InitMetrics ==
    /\ equity_curve \in EquityCurves
    /\ metrics = [called |-> FALSE]
    /\ closes = <<>>
    /\ period = 2
    /\ series = [called |-> FALSE]
    /\ code = Module(<<>>)
    /\ validation = None
    /\ strategy_dict = StratEmpty
    /\ strategy_code = GeneratedStrategy(StratEmpty)
    /\ BacktestIdle

\* calc.calculate_metrics(equity_curve)
CalculateMetrics ==
    /\ ~metrics.called
    /\ metrics' = [called |-> TRUE, method |-> "calculate_metrics",
                   result |-> calculate_metrics(equity_curve)]
    /\ UNCHANGED <<code, validation, equity_curve, indicatorvars, backtestvars>>

\* calc.total_return(equity_curve), ..., calc.calmar_ratio(equity_curve)
CalculateEach ==
    /\ ~metrics.called
    /\ metrics' = [called |-> TRUE, method |-> "each", result |-> EachMetric(equity_curve)]
    /\ UNCHANGED <<code, validation, equity_curve, indicatorvars, backtestvars>>

NextMetrics ==
    \/ CalculateMetrics
    \/ CalculateEach

SpecMetrics == InitMetrics /\ [][NextMetrics]_vars

(***************************************************************************)
(* The indicator calculator called on a frame                              *)
(***************************************************************************)
InitIndicators ==
    /\ closes \in Closes
    /\ period \in Periods
    /\ series = [called |-> FALSE]
    /\ equity_curve = <<>>
    /\ metrics = [called |-> FALSE]
    /\ code = Module(<<>>)
    /\ validation = None
    /\ strategy_dict = StratEmpty
    /\ strategy_code = GeneratedStrategy(StratEmpty)
    /\ BacktestIdle

\* IndicatorCalculator.calculate_rsi(data, period)
CalculateRsi ==
    /\ ~series.called
    /\ series' = [called |-> TRUE, method |-> "calculate_rsi",
                  values |-> calculate_rsi(closes, period)]
    /\ UNCHANGED <<code, validation, metricsvars, closes, period, backtestvars>>

\* IndicatorCalculator.calculate_sma(data, period)
CalculateSma ==
    /\ ~series.called
    /\ series' = [called |-> TRUE, method |-> "calculate_sma",
                  values |-> calculate_sma(closes, period)]
    /\ UNCHANGED <<code, validation, metricsvars, closes, period, backtestvars>>

NextIndicators ==
    \/ CalculateRsi
    \/ CalculateSma

SpecIndicators == InitIndicators /\ [][NextIndicators]_vars

(***************************************************************************)
(* Properties                                                              *)
(***************************************************************************)
\* cerebro.run() of the current call has started, so the strategy, the broker
\* and the analyzer are those of this call
Running == pc \in {"broker", "notify", "next", "analyzer", "collect", "except", "returned"}
               /\ datas # <<>> /\ bar >= 1

log == strat.trade_log

\* C1: the trade log never holds two BUY records of a symbol without a SELL
\* record of that symbol between them, and an open position is the one the
\* last BUY record opened, whatever the entry conditions do meanwhile
C1_NoSecondBuy ==
    /\ \A i, j \in 1..Len(log) :
          (i < j /\ log[i].action = "BUY" /\ log[j].action = "BUY"
                 /\ log[i].symbol = log[j].symbol)
            => \E k \in (i + 1)..(j - 1) :
                  log[k].action = "SELL" /\ log[k].symbol = log[i].symbol
    /\ (Running /\ pc = "analyzer" /\ InMarket(position))
          => /\ log # <<>>
             /\ log[Len(log)].action = "BUY"
             /\ log[Len(log)].size = position.size

\* C1's case: after a BUY, a SELL and a second BUY, the position is open, the
\* entry conditions hold on the bar and next() has run on it
C1_EntryHoldsWhileLong ==
    /\ Running /\ pc = "analyzer"
    /\ InMarket(position)
    /\ strategy_code.entry.kind = "if"
    /\ EvalEntry(strategy_code.entry.parts, datas[1], bar) = "true"
    /\ Len(log) = 3
    /\ log[3].action = "BUY"

\* C2: at every equity sample the value is the cash plus size x close of the
\* open position, and the cash is not negative
C2_ValueIsCashPlusPosition ==
    /\ (Running /\ pc = "analyzer")
          => /\ value = cash + Money(position.size * datas[1].rows[bar].close)
             /\ cash >= 0
    /\ Running => \A i \in 1..Len(records) : records[i].cash >= 0

\* C3 as stated: an order placed on a bar is filled on that bar at its close
\* moved by the slippage, so no order is pending when a bar starts
C3_FilledOnItsBar ==
    Running =>
      /\ pc = "broker" => (submitted = <<>> /\ strat.order = None)
      /\ \A i \in 1..Len(log) :
            log[i].price =
              IF log[i].action = "BUY"
                THEN (datas[1].rows[log[i].timestamp].close
                        * (10000 + cost.slippage_bps)) \div 100
                ELSE (datas[1].rows[log[i].timestamp].close
                        * (10000 - cost.slippage_bps)) \div 100

\* C3 amended: an order placed on bar t is pending when bar t+1 starts and is
\* filled (or refused) on bar t+1; a fill is at that bar's open moved against
\* the order by the slippage, limited to the bar's high (buy) or low (sell)
C3_FilledAtNextOpen ==
    Running =>
      /\ (pc = "analyzer" /\ strat.order # None)
            => (strat.order[1].created = bar /\ submitted = <<strat.order[1]>>)
      /\ (pc = "broker" /\ strat.order # None)
            => (strat.order[1].created = bar - 1 /\ submitted = <<strat.order[1]>>)
      /\ pc \in {"next", "analyzer"} => (strat.order = None \/ strat.order[1].created = bar)
      /\ \A i \in 1..Len(log) :
            /\ log[i].timestamp >= 2
            /\ log[i].price =
                 IF log[i].action = "BUY"
                   THEN SlipUp(datas[1].rows[log[i].timestamp], cost.slippage_bps)
                   ELSE SlipDown(datas[1].rows[log[i].timestamp], cost.slippage_bps)

\* C3's case: with slippage, a buy filled between the open and the high of the
\* bar after the one it was placed on, away from what the close would give
C3_SlippedFill ==
    /\ Running
    /\ cost.slippage_bps > 0
    /\ \E i \in 1..Len(log) :
          /\ log[i].action = "BUY"
          /\ log[i].price > Cents(datas[1].rows[log[i].timestamp].open)
          /\ log[i].price < Cents(datas[1].rows[log[i].timestamp].high)

\* the first exit clause, in declaration order, whose predicate holds on the bar
EarliestHolding(clauses, buy_price, close) ==
    CHOOSE k \in 1..Len(clauses) :
        /\ ExitHolds(clauses[k], buy_price, close)
        /\ \A j \in 1..(k - 1) : ~ExitHolds(clauses[j], buy_price, close)

AnyExitHolds(clauses, buy_price, close) ==
    \E k \in 1..Len(clauses) : ExitHolds(clauses[k], buy_price, close)

\* C4: with a position open, next() places a sell on a bar where an exit
\* predicate holds, with the reason of the earliest-declared rule that holds;
\* the sell placed for a position is the one that closes it (none is refused
\* and placed again), and the log has one SELL per BUY
C4_ExitInDeclarationOrder ==
    Running =>
      /\ (pc = "analyzer" /\ InMarket(position) /\ strategy_code.exit.kind = "chain"
            /\ AnyExitHolds(strategy_code.exit.clauses, strat.buy_price,
                            datas[1].rows[bar].close))
           => /\ strat.order # None
              /\ strat.order[1].side = "sell"
              /\ strat.order[1].created = bar
              /\ strat.order[1].reason =
                   Some(strategy_code.exit.clauses[
                          EarliestHolding(strategy_code.exit.clauses, strat.buy_price,
                                          datas[1].rows[bar].close)].reason)
      /\ \A i \in 1..Len(notifs) :
            notifs[i].side = "sell" => notifs[i].status # "Margin"
      /\ \A i \in 1..Len(log) :
            log[i].action = "SELL" => (i > 1 /\ log[i - 1].action = "BUY")

\* the data-feed lines the entry conditions of the strategy definition refer to
ReferencedLines(condition) ==
    {_indicator_expression(condition.ind, condition.period).expr}
      \cup (IF RhsIsIndicator(condition.rhs)
              THEN {_indicator_expression(condition.rhs.ind, condition.rhs.period).expr}
              ELSE {})

EntryLines ==
    UNION {ReferencedLines(strategy_dict.entry[i]) : i \in 1..Len(strategy_dict.entry)}

BuyPlacedOnBar ==
    strat.order # None /\ strat.order[1].side = "buy" /\ strat.order[1].created = bar

\* C5: on a bar where an indicator an entry condition refers to, on either
\* side, is NaN, no buy is placed; and a run does not fail over a NaN
C5_NoBuyOnNaN ==
    /\ (Running /\ pc = "analyzer")
          => \A line \in EntryLines :
                (HasLine(line) /\ LineValue(datas[1], bar, line) = NaN)
                   => ~BuyPlacedOnBar
    /\ (Running /\ pc = "except") => \E line \in EntryLines : line # "" /\ ~HasLine(line)

\* C6: a second call with the costs of the first (the strategy code and the
\* stored rows are the same) returns the result of the first: the same trade
\* log and the same equity curve
C6_SameInputsSameOutputs ==
    (pc = "returned" /\ call = 2 /\ calls[1] = calls[2])
       => returned[2] = returned[1]

\* C6's case: the second of two equal calls has returned a run with trades
C6_SecondRunWithTrades ==
    /\ pc = "returned" /\ call = 2 /\ calls[1] = calls[2]
    /\ returned[1].success
    /\ Len(returned[1].trade_log) >= 2
    /\ Len(returned[2].equity_curve) >= 2

\* total returns as fractions with positive denominators
ReturnLeq(a, b) ==
    IF a.den = b.den THEN a.num <= b.num ELSE a.num * b.den <= b.num * a.den

\* C7: with everything else equal, the call with the higher commission rate
\* does not have the higher total return
C7_CommissionMonotone ==
    (pc = "returned" /\ call = 2
       /\ returned[1].success /\ returned[2].success
       /\ calls[1].commission <= calls[2].commission
       /\ calls[1].slippage_bps = calls[2].slippage_bps
       /\ calls[1].initial_cash = calls[2].initial_cash)
      => ReturnLeq(returned[2].total_return, returned[1].total_return)

ResultFields == {"starting_value", "ending_value", "total_return", "equity_curve", "trade_log"}

EmptyBars == \A i \in 1..Len(universe) : table[universe[i]] = <<>>

\* C9 as stated: with no bars the call returns a successful run without
\* trades whose equity curve is the single point of the initial cash
C9_EmptyBarsZeroTradeRun ==
    (pc = "returned" /\ EmptyBars)
       => /\ returned[call].success
          /\ returned[call].trade_log = <<>>
          /\ Len(returned[call].equity_curve) = 1
          /\ returned[call].equity_curve[1].value = Money(cost.initial_cash)

\* C9 amended: a symbol without bars gets no data feed; when no symbol of the
\* universe has bars the call returns success = FALSE with the message
\* "No data feeds could be loaded" and nothing is run
C9_EmptyBarsNoFeeds ==
    /\ \A i \in 1..Len(datas) : datas[i].rows # <<>>
    /\ (pc = "returned" /\ EmptyBars)
          => /\ datas = <<>>
             /\ returned[call] = [success |-> FALSE,
                                  error |-> "No data feeds could be loaded"]

\* C9's case: the call for a universe without bars has returned
C9_EmptyUniverseReturned ==
    pc = "returned" /\ EmptyBars /\ universe # <<>>

\* C10: an entry condition on an indicator the compiler has an expression for
\* but the bar data has no column for is false on every bar: the run succeeds
\* without a trade
C10_AbsentColumnConditionFalse ==
    (pc = "returned" /\ datas # <<>> /\ SyntaxOK(strategy_code)
       /\ \E line \in EntryLines : line # "" /\ line \notin FrameColumns)
      => /\ returned[call].success
         /\ returned[call].trade_log = <<>>

\* C11: a strategy with an entry condition on an indicator the compiler has
\* no data-feed line for, on either side, never gets as far as the simulation
C11_UnboundIndicatorRejected ==
    Running => \A line \in EntryLines : line # ""

\* C12: a strategy with an exit rule whose percentage is missing, zero or
\* negative never gets as far as the simulation
C12_BadExitPercentRejected ==
    Running =>
      \A i \in 1..Len(strategy_dict.exit) :
          /\ "percent" \in DOMAIN strategy_dict.exit[i]
          /\ strategy_dict.exit[i].percent > 0

DocumentedOperators == {">", "<", ">=", "<=", "=="}

\* C13: a strategy with an entry operator outside >, <, >=, <=, == never gets
\* as far as the simulation, and the operator is not in the generated test
C13_UnknownOperatorRejected ==
    Running =>
      /\ \A i \in 1..Len(strategy_dict.entry) :
            strategy_dict.entry[i].op \in DocumentedOperators
      /\ strategy_code.entry.kind = "if" =>
            \A i \in 1..Len(strategy_code.entry.parts) :
                strategy_code.entry.parts[i].op \in DocumentedOperators

\* the top-level module an import statement binds is forbidden
BindsForbidden(name) == name # <<>> /\ name[1] \in FORBIDDEN_MODULES

\* C14: validate answers is_valid exactly when it lists no violation, and a
\* source it accepts parses, imports no forbidden module or submodule of one
\* (import m, import m.sub, from m import x, from m.sub import x), calls no
\* forbidden builtin by name and reads no attribute named __x__
C14_AcceptedCodeIsSafe ==
    (validation # None /\ validation.method = "validate") =>
      /\ validation.is_valid <=> validation.violations = <<>>
      /\ validation.is_valid =>
            /\ code.syntax_ok
            /\ \A i \in 1..Len(ast_walk(code.body)) :
                  LET node == ast_walk(code.body)[i]
                  IN  /\ node.node = "Import" =>
                            \A k \in 1..Len(node.names) : ~BindsForbidden(node.names[k])
                      /\ node.node = "ImportFrom" => ~BindsForbidden(node.module)
                      /\ (node.node = "Call" /\ node.func.node = "Name") =>
                            node.func.id \notin FORBIDDEN_BUILTINS
                      /\ node.node = "Attribute" =>
                            ~(StartsWithDunder(node.attr) /\ EndsWithDunder(node.attr))

\* C15: compile of a definition built from the documented indicators,
\* operators, exit types and sizings returns code with a class that defines
\* __init__ and next, which validate_backtrader_strategy accepts without a
\* violation
C15_DocumentedStrategyCompiles ==
    (validation # None /\ validation.method = "compile") =>
      /\ validation.raised = None
      /\ validation.code.syntax_ok
      /\ \E i \in 1..Len(validation.code.body) :
            /\ validation.code.body[i].node = "ClassDef"
            /\ \E k \in 1..Len(validation.code.body[i].body) :
                  validation.code.body[i].body[k] = FunctionDef("__init__")
            /\ \E k \in 1..Len(validation.code.body[i].body) :
                  validation.code.body[i].body[k] = FunctionDef("next")
      /\ validation.is_valid
      /\ validation.violations = <<>>

\* what an entry condition of the strategy definition says of a stored row: its
\* two sides have a value on the row and compare as its operator says
ConditionHolds(condition, row) ==
    LET ValueOf(ind, n) ==
            IF _indicator_expression(ind, n).expr \in FrameColumns
              THEN ColumnValue(row, _indicator_expression(ind, n).expr)
              ELSE NaN
        rhs == IF RhsIsIndicator(condition.rhs)
                 THEN ValueOf(condition.rhs.ind, condition.rhs.period)
                 ELSE Some(condition.rhs.num)
    IN  /\ ValueOf(condition.ind, condition.period) # NaN
        /\ rhs # NaN
        /\ Compare(condition.op, ValueOf(condition.ind, condition.period), rhs)

\* the entry conditions are false on every bar the run has come to
EntryFalseSoFar ==
    \A k \in 1..bar :
        \E i \in 1..Len(strategy_dict.entry) :
            ~ConditionHolds(strategy_dict.entry[i], datas[1].rows[k])

\* C16: as long as the entry conditions have been false on every bar, the
\* trade log is empty and every equity sample has value = cash = the initial
\* cash, pnl 0 and period return 0
C16_NoEntryFlatEquity ==
    (Running /\ EntryFalseSoFar) =>
       /\ log = <<>>
       /\ \A i \in 1..Len(records) :
             /\ records[i].value = Money(cost.initial_cash)
             /\ records[i].cash = Money(cost.initial_cash)
             /\ records[i].pnl = 0
             /\ records[i].return_pct.num = 0

\* C17: on a bar where the generated entry test holds for a feed in which the
\* strategy has neither a position nor an order waiting from an earlier bar,
\* and there is cash for at least one share, next() places a buy for that feed,
\* whatever the place of the symbol in the universe
C17_EverySymbolTraded ==
    (Running /\ pc = "analyzer" /\ strategy_code.entry.kind = "if") =>
       \A i \in 1..Len(datas) :
          ( /\ EvalEntry(strategy_code.entry.parts, datas[i], bar) = "true"
            /\ i = 1 => position.size = 0
            /\ \/ strat.order = None
               \/ strat.order[1].data # datas[i].name
               \/ strat.order[1].created = bar
            /\ _determine_size(strategy_code.sizing, datas[i].rows[bar].close, cash) > 0 )
          => \E k \in 1..Len(submitted) :
                /\ submitted[k].data = datas[i].name
                /\ submitted[k].side = "buy"
                /\ submitted[k].created = bar

IsZero(x) == x.kind = "num" /\ x.num = 0

\* C18: calculate_metrics of a curve of length 0 or 1 returns total return,
\* CAGR, maximum drawdown, Sharpe, Sortino and Calmar, each 0
C18_ShortCurveAllZero ==
    (metrics.called /\ metrics.method = "calculate_metrics" /\ Len(equity_curve) <= 1) =>
       \A key \in MetricKeys :
           key \in DOMAIN metrics.result /\ IsZero(metrics.result[key])

\* C19: on a curve of non-negative values the Sharpe, Sortino and Calmar
\* ratios and the maximum drawdown are finite numbers, and 0 when the
\* deviation of the returns (for Sortino, of the downside returns) is zero or
\* undefined, when there is no drawdown and when the running maximum is zero
C19_RatiosFinite ==
    (metrics.called /\ metrics.method = "each") =>
       /\ \A key \in {"sharpe", "sortino", "calmar", "max_dd"} :
             metrics.result[key].kind \in {"num", "finite"}
       /\ Std(Returns(equity_curve)) # "positive" => IsZero(metrics.result.sharpe)
       /\ Std(SelectSeq(Returns(equity_curve), BelowDailyRf)) # "positive"
             => IsZero(metrics.result.sortino)
       /\ (\A t \in 1..Len(equity_curve) : equity_curve[t] = CumMax(equity_curve, t))
             => IsZero(metrics.result.calmar) /\ IsZero(metrics.result.max_dd)

\* C20: after the warm-up, the RSI of a row whose window holds no fall of the
\* close (average loss 0; flat closes included) is exactly 100, and every RSI
\* is a number from 0 to 100
C20_RsiHundredWithoutLoss ==
    (series.called /\ series.method = "calculate_rsi") =>
       \A t \in (period + 1)..Len(closes) :
           /\ series.values[t].kind = "num"
           /\ 0 <= series.values[t].num
           /\ series.values[t].num <= 100 * series.values[t].den
           /\ (\A u \in (t - period + 1)..t : closes[u] >= closes[u - 1])
                 => series.values[t] = Num(100, 1)

\* the sum of the closes of rows a to b
RECURSIVE SumOfCloses(_, _)
SumOfCloses(a, b) == IF a > b THEN 0 ELSE closes[b] + SumOfCloses(a, b - 1)

\* C21: calculate_sma returns one value per row; the first min(period - 1, n)
\* are undefined and every later one is the mean of the period closes up to
\* its row
C21_SmaWarmUpThenMean ==
    (series.called /\ series.method = "calculate_sma") =>
       /\ Len(series.values) = Len(closes)
       /\ \A t \in 1..Len(closes) :
             IF t <= Min(period - 1, Len(closes))
               THEN series.values[t] = FloatNaN
               ELSE /\ series.values[t].kind = "num"
                    /\ series.values[t].num * period
                          = series.values[t].den * SumOfCloses(t - period + 1, t)

\* C21's case: a frame longer than the period, whose SMA has both undefined
\* and defined values
C21_SmaBeyondWarmUp ==
    /\ series.called /\ series.method = "calculate_sma"
    /\ Len(closes) > period
    /\ \E t, u \in 1..Len(closes) : closes[t] # closes[u]

\* the running maximum of the equity curve at t, row by row
RECURSIVE RunningMax(_)
RunningMax(t) ==
    IF t = 1 THEN equity_curve[1] ELSE Max(equity_curve[t], RunningMax(t - 1))

\* C22: on a non-empty curve of positive values max_drawdown is the least of
\* the (value - running maximum) / running maximum of its rows, is at most 0,
\* and is 0 exactly when no row is below the running maximum
C22_MaxDrawdownIsLeastFall ==
    ( /\ metrics.called /\ metrics.method = "each"
      /\ equity_curve # <<>>
      /\ \A t \in 1..Len(equity_curve) : equity_curve[t] > 0 ) =>
       LET dd == metrics.result.max_dd
       IN  /\ dd.kind = "num"
           /\ dd.den > 0
           /\ \A t \in 1..Len(equity_curve) :
                 dd.num * RunningMax(t) <= (equity_curve[t] - RunningMax(t)) * dd.den
           /\ \E t \in 1..Len(equity_curve) :
                 dd.num * RunningMax(t) = (equity_curve[t] - RunningMax(t)) * dd.den
           /\ dd.num <= 0
           /\ dd.num = 0 <=>
                 \A t \in 1..Len(equity_curve) : equity_curve[t] >= RunningMax(t)

\* C22's case: a curve of positive values that rises and then falls below its
\* running maximum
C22_CurveWithDrawdown ==
    /\ metrics.called /\ metrics.method = "each"
    /\ Len(equity_curve) >= 3
    /\ \A t \in 1..Len(equity_curve) : equity_curve[t] > 0
    /\ equity_curve[2] > equity_curve[1]
    /\ equity_curve[3] < equity_curve[2]
    /\ metrics.result.max_dd.num < 0

\* the text of the current call, as the validator reads it
Source == ParseSource(user_code, strategy_code)

\* exec has run the text of the current call
ExecRan == pc \in {"run", "broker", "notify", "next", "analyzer", "collect", "except"}

\* C23: a text the validation layer rejects (forbidden import, forbidden
\* builtin call, dunder attribute access) is never executed by run_backtest,
\* and the call returns success=False for it
C23_RejectedCodeNeverExecuted ==
    ~validate(Source).is_valid =>
       /\ ~ExecRan
       /\ pc = "returned" => ~returned[Len(returned)].success

\* the order slot and the pending signal of the strategy are empty
SlotCleared == strat.order = None /\ strat._pending_signal = None

\* at most one order is with the broker, and it is the one in the slot
OneOutstanding ==
    /\ Len(submitted) <= 1
    /\ submitted # <<>> => strat.order = Some(submitted[1])

\* a step of the strategy that starts with an order in the slot places no
\* order and changes nothing in the strategy
IdleWhilePending ==
    (pc = "next" /\ strat.order # None) => (submitted' = submitted /\ strat' = strat)

\* C24 as stated: at most one order is outstanding, nothing is placed or
\* evaluated while it is, and every order placed is eventually followed by a
\* cleared slot and a cleared signal
C24_EveryOrderCleared ==
    /\ []OneOutstanding
    /\ [][IdleWhilePending]_vars
    /\ (strat.order # None) ~> SlotCleared

\* C24 amended: as above for the orders placed before the last bar, which are
\* cleared before next() runs on the following bar, so next() always finds
\* the slot empty; an order placed on the last bar stays in the slot
C24_OrderClearedBeforeNextBar ==
    /\ []OneOutstanding
    /\ [][IdleWhilePending]_vars
    /\ [](pc = "next" => SlotCleared)
    /\ (strat.order # None /\ pc \in {"analyzer", "broker", "notify"}
           /\ strat.order[1].created < Len(datas[1].rows)) ~> SlotCleared
    /\ [](pc \in {"collect", "returned"} /\ strat.order # None
            => strat.order[1].created = Len(datas[1].rows))

\* the buy placed on bar 1 has filled on bar 2 at 10, the sell placed at the
\* close of 12 of bar 2 was refused for its margin on bar 3: next() runs again
\* on the open position with the slot empty
C24_ResumedAfterOrders ==
    /\ pc = "next" /\ bar = 3
    /\ SlotCleared
    /\ position.size > 0
    /\ Len(log) = 1 /\ log[1].timestamp = 2 /\ log[1].price = Cents(10)
    /\ datas[1].rows[2].close = 12
    /\ cost.commission = 125

\* C25: the position is never short; a sell is with the broker only while a
\* long position is open and is for the whole of it; when a sell has filled
\* the position is zero; every SELL of the log is for the size of the BUY
\* before it
C25_LongOnlyFullExit ==
    /\ position.size >= 0
    /\ \A i \in 1..Len(submitted) :
          submitted[i].side = "sell" =>
             position.size > 0 /\ submitted[i].size = position.size
    /\ \A i \in 1..Len(notifs) :
          (notifs[i].status = "Completed" /\ notifs[i].side = "sell") =>
             position.size = 0
    /\ \A i \in 1..Len(log) :
          log[i].action = "SELL" =>
             i > 1 /\ log[i - 1].action = "BUY" /\ log[i].size = log[i - 1].size

\* a sell of a position of several shares has just filled
C25_SellFilled ==
    /\ pc = "notify"
    /\ \E i \in 1..Len(notifs) :
          /\ notifs[i].status = "Completed" /\ notifs[i].side = "sell"
          /\ Abs(notifs[i].size) >= 2
    /\ log # <<>> /\ log[Len(log)].action = "BUY"

\* the fields notify_trade fills in are unset
NoPnl(record) ==
    record.pnl = None /\ record.pnl_pct = None /\ record.holding_period = None

\* the net profit of the round trip of the BUY record b and the SELL record s
RoundTripPnl(b, s) ==
    CentsToMoney((s.price - b.price) * s.size) - b.commission - s.commission

\* one strategy instance's step leaves the records of its log as they are,
\* but for the three fields of a SELL whose pnl was unset
LogStep ==
    pc # "run" =>
       /\ Len(strat'.trade_log) >= Len(log)
       /\ \A i \in 1..Len(log) :
             \/ strat'.trade_log[i] = log[i]
             \/ /\ log[i].action = "SELL" /\ log[i].pnl = None
                /\ strat'.trade_log[i] =
                      [log[i] EXCEPT !.pnl = strat'.trade_log[i].pnl,
                                     !.pnl_pct = strat'.trade_log[i].pnl_pct,
                                     !.holding_period = strat'.trade_log[i].holding_period]

\* C26: the log only grows and its records stay as appended, but for the pnl,
\* pnl_pct and holding_period of a SELL, written once; a BUY never has them,
\* and every SELL has the net profit and the length of its own round trip
C26_LogAppendOnlyPnlOnce ==
    /\ [][LogStep]_vars
    /\ [](\A i \in 1..Len(log) :
             IF log[i].action = "BUY" THEN NoPnl(log[i])
             ELSE /\ i > 1 /\ log[i - 1].action = "BUY"
                  /\ log[i].pnl = Some(RoundTripPnl(log[i - 1], log[i]))
                  /\ log[i].holding_period
                        = Some(log[i].timestamp - log[i - 1].timestamp))

\* two round trips with different profits are in the log, commission charged
C26_TwoRoundTrips ==
    /\ Len(log) >= 4
    /\ log[2].action = "SELL" /\ log[4].action = "SELL"
    /\ log[2].pnl # log[4].pnl
    /\ log[2].commission > 0

\* the equity rows stored under a backtest_id
StoredEquity(bt_id) == {row \in db.equity_curves : row.bt_id = bt_id}

C28_SizeWithinFraction ==
    \A i \in 1..Len(submitted) :
       (submitted[i].side = "buy" /\ strategy_code.sizing.kind = "percent_cash") =>
          /\ submitted[i].size >= 0
          /\ cash > 0 /\ submitted[i].price > 0
          /\ submitted[i].size * Money(submitted[i].price) * 100
                <= strategy_code.sizing.value * cash

\* C29: when next() runs on an open position buy_price is the price at which
\* the broker filled the BUY that opened it, the last record of the log; when
\* it runs flat after a completed SELL buy_price is unset
C29_BuyPriceIsFillPrice ==
    pc = "next" =>
       /\ position.size > 0 =>
             /\ strat.buy_price = Some(position.price)
             /\ log # <<>> /\ log[Len(log)].action = "BUY"
             /\ log[Len(log)].price = position.price
       /\ (position.size = 0 /\ log # <<>>) =>
             /\ log[Len(log)].action = "SELL"
             /\ strat.buy_price = None

\* next() runs on a position entered again after a sale, at another price than
\* the first entry and than the close the buy was placed at
C29_ReenteredAtOtherPrice ==
    /\ pc = "next" /\ position.size > 0
    /\ Len(log) = 3
    /\ log[3].price # log[1].price
    /\ position.price # Cents(datas[1].rows[bar - 1].close)

\* next() has placed on this bar a sell with the reason of the trailing stop
TrailingStopFired ==
    \E i \in 1..Len(submitted) :
       /\ submitted[i].side = "sell" /\ submitted[i].created = bar
       /\ submitted[i].reason = Some(ExitClause(strategy_dict.exit[1]).reason)

\* C30: with a trailing stop of p percent as the first exit, next() on an open
\* position places the trailing-stop sell exactly when the close is at most
\* the fill price of the entry less p percent, whatever the highs since, which
\* is when the stop-loss clause of the same percentage holds
C30_TrailingStopFromEntryPrice ==
    ( /\ pc = "analyzer" /\ position.size > 0
      /\ strategy_dict.exit # <<>>
      /\ strategy_dict.exit[1].type = "trailing_stop" ) =>
         /\ TrailingStopFired <=>
               Cents(datas[1].rows[bar].close) * 100
                 <= position.price * (100 - Percent(strategy_dict.exit[1]))
         /\ TrailingStopFired <=>
               ExitHolds(ExitClause(ExitCond("stop_loss", Percent(strategy_dict.exit[1]))),
                         strat.buy_price, datas[1].rows[bar].close)
         /\ position.price = log[Len(log)].price

\* the entry filled at 10 and the bar rose to 12; the close of 10 of the next
\* bar, more than 10% below that high, did not fire; the close of 8 now has
C30_FiredBelowEntryNotHigh ==
    /\ pc = "analyzer" /\ bar = 4
    /\ strategy_dict = StratSmallTrailing
    /\ Len(log) = 1 /\ log[1].timestamp = 2 /\ log[1].price = Cents(10)
    /\ datas[1].rows[2].high = 12
    /\ datas[1].rows[3].close = 10
    /\ datas[1].rows[4].close = 8
    /\ TrailingStopFired

====
